---- MODULE Spec2Model ----
(***************************************************************************)
(* SmartShopper AI: the search query planner (src/src/search.py), the      *)
(* conversational orchestrator (src/src/ai_service.py) and the visual      *)
(* similarity matcher (src/src/vision_service.py) and the cache layer      *)
(* (src/src/cache.py) as a state machine                                   *)
(* over requests.  Text is modelled character by character: a Python str   *)
(* is a TLA+ string, and lower/replace/strip/split/join/in are computed    *)
(* the way the Python built-ins compute them.                              *)
(***************************************************************************)
EXTENDS FiniteSets, Integers, Sequences, TLC

VARIABLES
    pc,                   \* position of the request being handled
    op,                   \* which endpoint is being served: "none", "search", "chat"
    vertex_ai_available,  \* AIService.vertex_ai_available
    openai_available,     \* AIService.openai_available
    message,              \* ChatMessage.message of the current turn
    search_terms,         \* local of AIService.chat
    search_request,       \* the SearchRequest handed to search_products (<<>> = none yet)
    planned,              \* the query built by _build_search_query (<<>> = none yet)
    es_log,               \* bodies sent to es.search while serving the current request
    search_response,      \* the SearchResponse of search_products (<<>> = none yet)
    products,             \* local of AIService.chat
    invoked,              \* generation stages invoked in this turn, in order
    outcomes,             \* per invoked stage: "ok" or "raise"
    ai_response,          \* return value of _generate_response (<<>> = none yet)
    suggestions,          \* return value of _generate_suggestions
    raised,               \* TRUE iff the except branch of chat ran in this turn
    response,             \* the ChatResponse returned to the caller (<<>> = none yet)
    es_reply,             \* what es.search answered to the last body (<<>> = not called)
    clip_available,       \* VisionService.clip_model and clip_processor are loaded
    gemini_vision_available, \* VisionService.gemini_vision_available
    vs_request,           \* the visual search request being served (<<>> = none)
    query_embedding,      \* return value of generate_image_embedding (<<>> = None)
    embed_calls,          \* outcomes of the CLIP runs made for this request
    analysis_log,         \* outcomes of the Gemini calls made for this request
    gemini_analysis,      \* local of visual_search (<<>> = None)
    http,                 \* what visual_search returned (<<>> = nothing yet)
    rank_in,              \* arguments of search_similar_products (<<>> = not called)
    rank_out,             \* return value of search_similar_products
    redis_available,      \* CacheService.redis_available
    store,                \* the entries the Redis store holds: key and serialized text
    written,              \* per live entry, which value was last set under its key
    store_log,            \* calls that reached the Redis client in this request
    cache_call,           \* the cache operation being served (<<>> = none)
    cache_result,         \* what the cache operation returned (<<>> = nothing yet)
    key_in,               \* arguments of the two _generate_cache_key calls compared
    key_out,              \* the two keys derived
    get_log,              \* ids asked of es.get while serving the current request
    got,                  \* return value of SearchService.get_product (<<>> = None)
    rejected              \* the fields a SearchRequest construction refused (<<>> = none)

vars == <<pc, op, vertex_ai_available, openai_available, message, search_terms,
          search_request, planned, es_log, search_response, products, invoked,
          outcomes, ai_response, suggestions, raised, response, es_reply,
          clip_available, gemini_vision_available, vs_request, query_embedding,
          embed_calls, analysis_log, gemini_analysis, http, rank_in, rank_out,
          redis_available, store, written, store_log, cache_call, cache_result,
          key_in, key_out, get_log, got, rejected>>

\* the state of the cache service, of the store and of the lookups
cache_vars == <<redis_available, store, written, store_log, cache_call,
                cache_result, key_in, key_out, get_log, got>>

\* the state of the vision service and of the request it is serving
vision_vars == <<clip_available, gemini_vision_available, vs_request,
                 query_embedding, embed_calls, analysis_log, gemini_analysis,
                 http, rank_in, rank_out>>

(***************************************************************************)
(* Bounds of the model.                                                    *)
(***************************************************************************)
MaxFrags == 2      \* a generated message is made of at most this many fragments
MaxDocs == 6       \* number of documents the index can hold

(***************************************************************************)
(* Optional values: None is the empty tuple, a present value x is <<x>>.   *)
(***************************************************************************)
None == <<>>
Some(x) == <<x>>

Min(a, b) == IF a <= b THEN a ELSE b
MinOf(S) == CHOOSE m \in S : \A n \in S : m <= n

(***************************************************************************)
(* Python str built-ins.                                                   *)
(***************************************************************************)
Char(s, i) == SubSeq(s, i, i)

UpperCase == "ABCDEFGHIJKLMNOPQRSTUVWXYZ"
LowerCase == "abcdefghijklmnopqrstuvwxyz"

LowerChar(c) ==
    IF \E i \in 1..26 : Char(UpperCase, i) = c
    THEN Char(LowerCase, CHOOSE i \in 1..26 : Char(UpperCase, i) = c)
    ELSE c

\* s.lower(), computed by halves
RECURSIVE lower(_)
lower(s) ==
    IF Len(s) <= 1 THEN LowerChar(s)
    ELSE lower(SubSeq(s, 1, Len(s) \div 2)) \o lower(SubSeq(s, Len(s) \div 2 + 1, Len(s)))

\* k in s
Contains(k, s) ==
    \E i \in 1..(Len(s) - Len(k) + 1) : SubSeq(s, i, i + Len(k) - 1) = k

\* s.replace(c, ""), computed by halves
RECURSIVE remove(_, _)
remove(s, c) ==
    IF Len(s) <= 1 THEN (IF s = c THEN "" ELSE s)
    ELSE remove(SubSeq(s, 1, Len(s) \div 2), c)
         \o remove(SubSeq(s, Len(s) \div 2 + 1, Len(s)), c)

IsSpace(c) == c \in {" ", "\t", "\n", "\r"}

\* positions of the characters of s that are not whitespace
NonSpace(s) == {i \in 1..Len(s) : ~IsSpace(Char(s, i))}

MaxOf(S) == CHOOSE m \in S : \A n \in S : n <= m

\* s.strip()
strip(s) ==
    IF NonSpace(s) = {} THEN "" ELSE SubSeq(s, MinOf(NonSpace(s)), MaxOf(NonSpace(s)))

\* the k-th smallest element of a set of integers
Kth(S, k) == CHOOSE x \in S : Cardinality({y \in S : y <= x}) = k

\* s.split(): the maximal runs of non-whitespace characters, in order
split(s) ==
    LET starts == {i \in NonSpace(s) : i = 1 \/ IsSpace(Char(s, i - 1))}
        ends == {i \in NonSpace(s) : i = Len(s) \/ IsSpace(Char(s, i + 1))}
    IN [k \in 1..Cardinality(starts) |-> SubSeq(s, Kth(starts, k), Kth(ends, k))]

\* " ".join(words)
RECURSIVE join(_)
join(words) ==
    IF words = <<>> THEN ""
    ELSE IF Len(words) = 1 THEN words[1]
    ELSE words[1] \o " " \o join(Tail(words))

\* any(word in s for word in words)
AnyIn(words, s) == \E i \in 1..Len(words) : Contains(words[i], s)

(***************************************************************************)
(* AIService._extract_search_terms                                         *)
(***************************************************************************)
category_keywords ==
    << <<"phone", "smartphone">>, <<"laptop", "laptop">>,
       <<"headphones", "headphones">>, <<"jeans", "jeans">>,
       <<"cooking", "kitchen">>, <<"book", "programming">>,
       <<"shoes", "sneakers">>, <<"skincare", "moisturizer">> >>

brand_keywords ==
    <<"apple", "iphone", "macbook", "sony", "nike", "levi's", "levis",
      "instant pot", "cerave">>

budget_words == <<"cheap", "budget", "affordable", "under">>

premium_words == <<"premium", "expensive", "high-end", "best">>

stop_words ==
    {"what", "where", "when", "how", "can", "could", "would", "should",
     "the", "and", "or", "but"}

MaxShortLen == 50
MaxKeyWords == 5
MinWordLen == 3

\* variant: only '?' is removed
cleaned_message_question_only(m) == strip(remove(m, "?"))

\* message.replace("?", "").replace("!", "").strip()
cleaned_message(m) == strip(remove(remove(m, "?"), "!"))

\* [word for word in words if len(word) > 3 and not word.lower() in stop words]
key_words(m) ==
    SelectSeq(split(cleaned_message(m)),
              LAMBDA w : Len(w) > MinWordLen /\ lower(w) \notin stop_words)

\* lines 135-146: no keyword found
fallback_terms(m) ==
    IF Len(cleaned_message(m)) > MaxShortLen
    THEN join(SubSeq(key_words(m), 1, Min(MaxKeyWords, Len(key_words(m)))))
    ELSE cleaned_message(m)

CategoryHits(m) ==
    {i \in 1..Len(category_keywords) : Contains(category_keywords[i][1], lower(m))}

BrandHits(m) ==
    {i \in 1..Len(brand_keywords) : Contains(brand_keywords[i], lower(m))}

\* variant: the brand list is consulted before the category table
_extract_search_terms_brand_first(m) ==
    IF BrandHits(m) # {} THEN brand_keywords[MinOf(BrandHits(m))]
    ELSE IF CategoryHits(m) # {} THEN category_keywords[MinOf(CategoryHits(m))][2]
    ELSE IF AnyIn(budget_words, lower(m)) THEN "budget"
    ELSE IF AnyIn(premium_words, lower(m)) THEN "premium"
    ELSE fallback_terms(m)

_extract_search_terms(m) ==
    IF CategoryHits(m) # {} THEN category_keywords[MinOf(CategoryHits(m))][2]
    ELSE IF BrandHits(m) # {} THEN brand_keywords[MinOf(BrandHits(m))]
    ELSE IF AnyIn(budget_words, lower(m)) THEN "budget"
    ELSE IF AnyIn(premium_words, lower(m)) THEN "premium"
    ELSE fallback_terms(m)

(***************************************************************************)
(* Products and the external index.  Prices are in cents and ratings in    *)
(* tenths, so that every product value is an integer.                      *)
(***************************************************************************)
ELECTRONICS == "electronics"
CLOTHING == "clothing"
HOME == "home"

\* document i of catalogue k: catalogue 1 is all electronics, catalogue 2 has
\* no electronics, catalogue 3 is mixed and its second document does not parse
Doc(k, i) ==
    [valid |-> ~(k = 3 /\ i = 2),
     source |->
        [id |-> ToString(k) \o "-" \o ToString(i),
         name |-> "Item " \o ToString(k) \o "-" \o ToString(i),
         brand |-> IF i % 3 = 0 THEN None ELSE Some("Brand" \o ToString(i)),
         category |-> IF k = 1 THEN ELECTRONICS
                      ELSE IF k = 2 THEN (IF i % 2 = 0 THEN HOME ELSE CLOTHING)
                      ELSE (IF i % 3 = 0 THEN ELECTRONICS ELSE CLOTHING),
         price |-> 950 * i * k + 49 * (i % 2),
         rating |-> IF i % 4 = 0 THEN None ELSE IF k = 2 THEN Some(40 + i) ELSE Some(50 - i)]]

Catalogues == 1..3

Catalogue(k) == [i \in 1..MaxDocs |-> Doc(k, i)]

\* what es.search may answer to a body: it raises, or it reports n matching
\* documents and returns the window [from, from + size) of them
EsReplies(body) ==
    {[ok |-> FALSE, hits |-> <<>>, total |-> 0]}
    \cup {[ok |-> TRUE,
           hits |-> SubSeq(Catalogue(k), body.from + 1, Min(body.from + body.size, n)),
           total |-> n] : k \in Catalogues, n \in 0..MaxDocs}

\* what es.get may answer for an id: it raises (unknown id, index down), or it
\* returns the document stored under the id
EsGetReplies(product_id) ==
    {[ok |-> FALSE, found |-> <<>>]}
    \cup {[ok |-> TRUE, found |-> <<Doc(k, i)>>] :
            <<k, i>> \in {x \in Catalogues \X (1..MaxDocs) :
                            Doc(x[1], x[2]).source.id = product_id}}

\* SearchService.get_product: Product(**response["_source"]), None when the
\* index call or the construction raises
get_product(product_id, reply) ==
    IF reply.ok /\ reply.found[1].valid THEN Some(reply.found[1].source) ELSE None

LookedUpIds == {"1-1", "3-2", "0-0"}

(***************************************************************************)
(* SearchService._build_search_query                                       *)
(***************************************************************************)
\* Python truthiness of an Optional[str]
Truthy(o) == o # None /\ o[1] # ""

multi_match_fields == <<"name^3", "description^2", "brand^2", "features", "tags">>

\* variant: the query text is tested without being trimmed
must_clauses_untrimmed(r) ==
    IF r.query # ""
    THEN <<[kind |-> "multi_match", query |-> r.query, fields |-> multi_match_fields]>>
    ELSE <<[kind |-> "match_all"]>>

must_clauses(r) ==
    IF strip(r.query) # ""
    THEN <<[kind |-> "multi_match", query |-> r.query, fields |-> multi_match_fields]>>
    ELSE <<[kind |-> "match_all"]>>

price_range(r) ==
    IF r.min_price # None /\ r.max_price # None
        THEN Some([gte |-> r.min_price[1], lte |-> r.max_price[1]])
    ELSE IF r.min_price # None THEN Some([gte |-> r.min_price[1]])
    ELSE IF r.max_price # None THEN Some([lte |-> r.max_price[1]])
    ELSE None

BrandSet(r) == Truthy(r.brand)

filter_clauses(r) ==
    (IF Truthy(r.category)
        THEN <<[kind |-> "term", field |-> "category", value |-> r.category[1]]>>
        ELSE <<>>)
    \o (IF BrandSet(r)
        THEN <<[kind |-> "term", field |-> "brand.keyword", value |-> r.brand[1]]>>
        ELSE <<>>)
    \o (IF r.in_stock_only
        THEN <<[kind |-> "term", field |-> "in_stock", value |-> TRUE]>>
        ELSE <<>>)
    \o (IF price_range(r) # None
        THEN <<[kind |-> "range", field |-> "price", value |-> price_range(r)[1]]>>
        ELSE <<>>)
    \o (IF r.min_rating # None
        THEN <<[kind |-> "range", field |-> "rating", value |-> [gte |-> r.min_rating[1]]]>>
        ELSE <<>>)

_build_search_query(r) ==
    IF filter_clauses(r) # <<>>
    THEN [must |-> must_clauses(r), filter |-> filter_clauses(r)]
    ELSE [must |-> must_clauses(r)]

(***************************************************************************)
(* SearchService.search_products                                           *)
(***************************************************************************)
DefaultPageSize == 20
MaxPageSize == 100

\* variant: in_stock_only defaults to False
SearchRequest_any_stock(q, size) ==
    [query |-> q, category |-> None, min_price |-> None, max_price |-> None,
     brand |-> None, in_stock_only |-> FALSE, min_rating |-> None,
     page |-> 1, page_size |-> size]

\* SearchRequest(query=q, ...) with the defaults of the model's fields
SearchRequest(q, size) ==
    [query |-> q, category |-> None, min_price |-> None, max_price |-> None,
     brand |-> None, in_stock_only |-> TRUE, min_rating |-> None,
     page |-> 1, page_size |-> size]

\* variant: the window starts one page too far
EsBody_next_page(r) ==
    [query |-> _build_search_query(r),
     from |-> r.page * r.page_size,
     size |-> r.page_size]

EsBody(r) ==
    [query |-> _build_search_query(r),
     from |-> (r.page - 1) * r.page_size,
     size |-> r.page_size]

\* Product(**hit["_source"]) for every hit; a hit that does not parse is skipped
ParseHits(hits) ==
    LET ok == SelectSeq(hits, LAMBDA h : h.valid)
    IN [i \in 1..Len(ok) |-> ok[i].source]

\* variant: the response to a failed index call reports the first page
search_products_first_page(r, reply) ==
    IF reply.ok
    THEN [query |-> r.query, products |-> ParseHits(reply.hits), total |-> reply.total,
          page |-> r.page, page_size |-> r.page_size,
          total_pages |-> (reply.total + r.page_size - 1) \div r.page_size]
    ELSE [query |-> r.query, products |-> <<>>, total |-> 0,
          page |-> 1, page_size |-> r.page_size, total_pages |-> 0]

search_products(r, reply) ==
    IF reply.ok
    THEN [query |-> r.query, products |-> ParseHits(reply.hits), total |-> reply.total,
          page |-> r.page, page_size |-> r.page_size,
          total_pages |-> (reply.total + r.page_size - 1) \div r.page_size]
    ELSE [query |-> r.query, products |-> <<>>, total |-> 0,
          page |-> r.page, page_size |-> r.page_size, total_pages |-> 0]

(***************************************************************************)
(* f-string formatting of the values that appear in response texts.        *)
(***************************************************************************)
\* str() of a float with at most two decimals, given in hundredths
FloatStr(c) ==
    ToString(c \div 100) \o "."
    \o (IF c % 10 = 0 THEN ToString((c % 100) \div 10)
        ELSE IF c % 100 < 10 THEN "0" \o ToString(c % 100)
        ELSE ToString(c % 100))

\* str() of an Optional[float] given in tenths
RatingStr(o) ==
    IF o = None THEN "None" ELSE ToString(o[1] \div 10) \o "." \o ToString(o[1] % 10)

\* str() of an Optional[str]
OptStr(o) == IF o = None THEN "None" ELSE o[1]

(***************************************************************************)
(* AIService._generate_fallback_response                                   *)
(***************************************************************************)
GreetingText ==
    "Hello! I'm SmartShopper AI, your personal shopping assistant. I can help you find products, compare prices, and make recommendations. What are you looking for today?"

HelpText ==
    "I can help you find products across categories like electronics, clothing, home goods, books, and more! Just tell me what you're looking for, your budget, or any specific preferences."

NotFoundText ==
    "I couldn't find any products matching your request, but I'm here to help! Try describing what you're looking for in different terms, or let me know your budget and preferences."

greeting_words == <<"hello", "hi", "hey">>

help_words == <<"help", "what can you do">>

SingleText(p) ==
    "I found a great option for you: the " \o p.name \o " by " \o OptStr(p.brand)
    \o " for $" \o FloatStr(p.price) \o ". It has a " \o RatingStr(p.rating)
    \o "/5 rating and is currently in stock!"

MultiText(n, p) ==
    "I found " \o ToString(n) \o " great options! The top recommendation is the "
    \o p.name \o " by " \o OptStr(p.brand) \o " for $" \o FloatStr(p.price)
    \o ". Would you like to see more details or filter by price range?"

\* variant: the recommendation is the last candidate
_generate_fallback_response_last(user_message, prods) ==
    IF prods # <<>>
    THEN IF Len(prods) = 1 THEN SingleText(prods[1])
         ELSE MultiText(Len(prods), prods[Len(prods)])
    ELSE IF AnyIn(greeting_words, lower(user_message)) THEN GreetingText
    ELSE IF AnyIn(help_words, lower(user_message)) THEN HelpText
    ELSE NotFoundText

_generate_fallback_response(user_message, prods) ==
    IF prods # <<>>
    THEN IF Len(prods) = 1 THEN SingleText(prods[1])
         ELSE MultiText(Len(prods), prods[1])
    ELSE IF AnyIn(greeting_words, lower(user_message)) THEN GreetingText
    ELSE IF AnyIn(help_words, lower(user_message)) THEN HelpText
    ELSE NotFoundText

(***************************************************************************)
(* AIService._generate_suggestions                                         *)
(***************************************************************************)
MaxSuggestions == 3

electronics_suggestions ==
    <<"Show me more electronics", "Compare similar products", "Find budget electronics">>

general_suggestions ==
    <<"Browse popular products", "Show me deals and discounts",
      "Help me find something specific", "Show me trending items">>

RECURSIVE SumPrices(_)
SumPrices(prods) ==
    IF prods = <<>> THEN 0 ELSE prods[1].price + SumPrices(Tail(prods))

\* int(sum(prices) / len(prices)), prices being in cents
IntAvgPrice(prods) == SumPrices(prods) \div (100 * Len(prods))

price_suggestions(prods) ==
    <<"Find products under $" \o ToString(IntAvgPrice(prods)),
      "Show premium options above $" \o ToString(IntAvgPrice(prods))>>

\* suggestions[:n]
Take(seq, n) == SubSeq(seq, 1, Min(n, Len(seq)))

\* variant: the price suggestions are emitted before the electronics ones
all_suggestions_price_first(prods) ==
    IF prods # <<>>
    THEN price_suggestions(prods)
         \o (IF \E i \in 1..Len(prods) : prods[i].category = ELECTRONICS
             THEN electronics_suggestions ELSE <<>>)
    ELSE general_suggestions

all_suggestions(prods) ==
    IF prods # <<>>
    THEN (IF \E i \in 1..Len(prods) : prods[i].category = ELECTRONICS
          THEN electronics_suggestions ELSE <<>>)
         \o price_suggestions(prods)
    ELSE general_suggestions

\* variant: the list is returned without being cut
_generate_suggestions_uncut(user_message, prods) == all_suggestions(prods)

_generate_suggestions(user_message, prods) ==
    Take(all_suggestions(prods), MaxSuggestions)

(***************************************************************************)
(* AIService.chat: the values it returns                                   *)
(***************************************************************************)
ChatPageSize == 5

ApologyText ==
    "I apologize, but I'm having trouble processing your request right now. Please try again later."

error_suggestions == <<"Try a different search", "Browse categories", "Contact support">>

ErrorResponse ==
    [response |-> ApologyText, products |-> <<>>,
     suggestions |-> error_suggestions, context |-> None]

ChatResponse(text, prods, sugg, terms) ==
    [response |-> text, products |-> prods, suggestions |-> sugg,
     context |-> Some([search_terms |-> terms])]

\* variant: the page size is left at the default of SearchRequest
chat_search_request_default_size(terms) == SearchRequest(terms, DefaultPageSize)

chat_search_request(terms) == SearchRequest(terms, ChatPageSize)

\* what a text-generation provider returns when it does not raise
VertexText == "Here is what Vertex AI suggests."
OpenAIText == "Here is what OpenAI suggests."

(***************************************************************************)
(* Inputs.                                                                 *)
(***************************************************************************)
Fragments == <<"phone", "Apple", "cheap", "best", "Cool", " ", "ph?", "one", "hi!">>

RECURSIVE GenMessages(_)
GenMessages(n) ==
    IF n = 0 THEN {""}
    ELSE GenMessages(n - 1)
         \cup {m \o Fragments[i] : m \in GenMessages(n - 1), i \in 1..Len(Fragments)}

LongMessage ==
    "I am looking for a very good quality product that can help me with my daily work and should not be too expensive"

\* the same request worded without a price word
PlainLongMessage ==
    "I am looking for a very good quality product that can help me with my daily work and should not be too costly"

TestMessages ==
    {"I want an Apple phone", "Show me Apple products", "I want an iPhone",
     "Looking for Sony headphones", "Need Nike shoes", "I want APPLE products",
     "Show me cheap products", "Looking for affordable options",
     "Products under $100", "Show me premium laptops",
     "I want expensive headphones", "Looking for high-end electronics",
     "What is the best laptop?", "Cool stuff!", "Show me something",
     "I'm looking for a new phone", "hello", LongMessage, PlainLongMessage}

Messages == TestMessages \cup GenMessages(MaxFrags)

Queries == {"", "  ", " tv "}

Descriptors ==
    [query : Queries,
     category : {None, Some(ELECTRONICS)},
     min_price : {None, Some(0), Some(1000)},
     max_price : {None, Some(5000)},
     brand : {None, Some(""), Some("Sony")},
     in_stock_only : BOOLEAN,
     min_rating : {None, Some(0), Some(40)},
     page : {1, 2},
     page_size : {2, ChatPageSize}]

(***************************************************************************)
(* VisionService.calculate_similarity and search_similar_products.         *)
(* Embeddings are integer vectors.  A similarity is the record             *)
(* [d, n, e]: the real number d / sqrt(n), with e the rounding of the      *)
(* floating-point evaluation, smaller than any difference of two exact     *)
(* values; n = 0 is nan.                                                   *)
(***************************************************************************)
MaxCands == 3

Dot(a, b) ==
    LET S[i \in 0..Len(a)] == IF i = 0 THEN 0 ELSE S[i - 1] + a[i] * b[i]
    IN S[Len(a)]

Norm2(a) == Dot(a, a)

Nan == [d |-> 0, n |-> 0, e |-> 0]

IsNan(x) == x.n = 0

Score(num, den) == [d |-> num, n |-> den * den, e |-> 0]

Zero == Score(0, 1)
One == Score(1, 1)

\* the directions in which an inexact evaluation may be off
Roundings == {-1, 0, 1}

\* x < y on the exact values
ExactLess(x, y) ==
    IF x.d < 0 /\ y.d >= 0 THEN TRUE
    ELSE IF x.d >= 0 /\ y.d < 0 THEN FALSE
    ELSE IF x.d >= 0 THEN x.d * x.d * y.n < y.d * y.d * x.n
    ELSE x.d * x.d * y.n > y.d * y.d * x.n

\* float comparisons; every comparison with nan is false
Less(x, y) ==
    /\ ~IsNan(x)
    /\ ~IsNan(y)
    /\ \/ ExactLess(x, y)
       \/ ~ExactLess(y, x) /\ x.e < y.e

GreaterEq(x, y) == ~IsNan(x) /\ ~IsNan(y) /\ ~Less(x, y)

\* variant: the dot product of the vectors as given
calculate_similarity_raw(embedding1, embedding2, round) ==
    IF Len(embedding1) # Len(embedding2) THEN Zero
    ELSE [d |-> Dot(embedding1, embedding2), n |-> 1, e |-> 0]

\* np.dot of vectors of different lengths raises and the handler returns 0.0;
\* a zero vector divided by its norm is nan; unit vectors normalise exactly
calculate_similarity(embedding1, embedding2, round) ==
    IF Len(embedding1) # Len(embedding2) THEN Zero
    ELSE IF Norm2(embedding1) = 0 \/ Norm2(embedding2) = 0 THEN Nan
    ELSE [d |-> Dot(embedding1, embedding2),
          n |-> Norm2(embedding1) * Norm2(embedding2),
          e |-> IF Norm2(embedding1) = 1 /\ Norm2(embedding2) = 1 THEN 0 ELSE round]

\* list.sort(key=score, reverse=True): descending, equal scores keep their order
SortDescending(xs) ==
    LET pos(i) == 1 + Cardinality({j \in 1..Len(xs) : Less(xs[i].score, xs[j].score)})
                    + Cardinality({j \in 1..(i - 1) :
                                     /\ ~Less(xs[i].score, xs[j].score)
                                     /\ ~Less(xs[j].score, xs[i].score)})
    IN [p \in 1..Len(xs) |-> xs[CHOOSE i \in 1..Len(xs) : pos(i) = p]]

Similarities(query, product_embeddings, rounding) ==
    [i \in 1..Len(product_embeddings) |->
        [id |-> product_embeddings[i].id,
         score |-> calculate_similarity(query,
                                        product_embeddings[i].embedding, rounding[i])]]

\* variant: a score equal to the threshold is dropped
search_similar_products_strict(query, product_embeddings, top_k, threshold, rounding) ==
    LET all == Similarities(query, product_embeddings, rounding)
        similarities == SelectSeq(all, LAMBDA x : GreaterEq(x.score, threshold)
                                                  /\ Less(threshold, x.score))
    IN Take(SortDescending(similarities), top_k)

search_similar_products(query, product_embeddings, top_k, threshold, rounding) ==
    LET all == Similarities(query, product_embeddings, rounding)
        similarities == SelectSeq(all, LAMBDA x : GreaterEq(x.score, threshold))
    IN Take(SortDescending(similarities), top_k)

DefaultTopK == 10
DefaultThreshold == Score(3, 10)

QueryVectors == {<<1, 0>>, <<1, 1>>, <<0, 0>>}
CandidateVectors == {<<1, 0>>, <<1, 1>>, <<3, 4>>, <<0, 0>>, <<1>>}
Thresholds == {Zero, DefaultThreshold, Score(3, 5)}
TopKs == {0, 1, 2, DefaultTopK}

\* candidate lists with the product's position as its id
WithIds(vs) == [i \in 1..Len(vs) |-> [id |-> "p" \o ToString(i), embedding |-> vs[i]]]

CandidateLists ==
    UNION {[1..n -> CandidateVectors] : n \in 0..MaxCands}

\* scenario D: the query is P's embedding and five others score below 0.3
ScenarioDQuery == <<1, 1>>
ScenarioDCandidates ==
    <<<<-1, 1>>, <<-1, 0>>, <<1, 1>>, <<1, -1>>, <<-1, -1>>, <<0, -1>>>>

\* the same pair of vectors evaluates to the same float
Deterministic(vs, rounding) ==
    \A i, j \in 1..Len(vs) : vs[i] = vs[j] => rounding[i] = rounding[j]

\* the roundings a call can meet: the same for equal vectors, none where the
\* evaluation is exact
RoundingsFor(q, vs) ==
    {r \in [1..Len(vs) -> Roundings] :
        /\ Deterministic(vs, r)
        /\ \A i \in 1..Len(vs) : calculate_similarity(q, vs[i], r[i]).e = r[i]}

RankInput(q, vs, k, t, r) ==
    [query_embedding |-> q, product_embeddings |-> WithIds(vs), top_k |-> k,
     threshold |-> t, rounding |-> r]

(***************************************************************************)
(* POST /api/visual-search: the values visual_search works with.           *)
(***************************************************************************)
AllProductsPageSize == 1000

\* variant: page_size has no upper limit
ValidSearchRequest_unlimited(r) ==
    /\ r.page >= 1
    /\ r.page_size >= 1

\* the constraints SearchRequest puts on page and page_size
ValidSearchRequest(r) ==
    /\ r.page >= 1
    /\ r.page_size >= 1
    /\ r.page_size <= MaxPageSize

\* the form fields of a visual search, as VisualSearchRequest receives them
VisualRequests ==
    [top_k : {1, DefaultTopK},
     use_gemini_analysis : BOOLEAN,
     category : {None, Some(ELECTRONICS)},
     min_price : {None},
     max_price : {None, Some(5000)}]

Uploads == {"no_file", "empty_filename", "image"}

\* what running CLIP on the image may give: a normalised vector, or it raises
ImageEmbeddings == {<<1, 0>>, <<0, 1>>}
EmbedOutcomes ==
    {[kind |-> "raises", value |-> None]}
    \cup {[kind |-> "ok", value |-> Some(v)] : v \in ImageEmbeddings}

AnalysisOutcomes == {"ok", "raises", "malformed"}
Attributes == [category |-> ELECTRONICS]

NoFileText == "No image file provided"
EmptyFilenameText == "Empty filename"
EmbeddingFailedText == "Failed to generate image embedding. Make sure CLIP model is loaded."
InvalidRequestText == "Invalid request data"
InternalErrorText == "Internal server error"

ErrorReturn(code, text) == [kind |-> "error", status |-> code, error |-> text]

VisualSearchResponse(prods, n, analysis) ==
    [kind |-> "ok", status |-> 200, products |-> prods, total |-> n,
     gemini_analysis |-> analysis]

\* visual_search, lines 191-207: the products the ranking names, in retrieval
\* order, then the request's filters
similar_products(all_products, ranked, req) ==
    LET named == SelectSeq(all_products,
                     LAMBDA p : \E k \in 1..Len(ranked) : ranked[k].id = p.id)
        in_category == IF Truthy(req.category)
                       THEN SelectSeq(named, LAMBDA p : p.category = req.category[1])
                       ELSE named
        above == IF req.min_price # None
                 THEN SelectSeq(in_category, LAMBDA p : p.price >= req.min_price[1])
                 ELSE in_category
    IN IF req.max_price # None
       THEN SelectSeq(above, LAMBDA p : p.price <= req.max_price[1])
       ELSE above

(***************************************************************************)
(* JSON as the cache uses it.  A Python value is the record [t, v]: its    *)
(* type and its content; a list holds scalars, a dict holds named scalars  *)
(* in insertion order; "obj" is a value json does not know (a Decimal, a   *)
(* datetime), given by its str() text.                                     *)
(***************************************************************************)
JNull == [t |-> "null", v |-> 0]
JBool(b) == [t |-> "bool", v |-> b]
JInt(n) == [t |-> "int", v |-> n]
JFloat(cents) == [t |-> "float", v |-> cents]
JStr(x) == [t |-> "str", v |-> x]
JObj(x) == [t |-> "obj", v |-> x]
JList(xs) == [t |-> "list", v |-> xs]
JDict(items) == [t |-> "dict", v |-> items]
Item(n, x) == [name |-> n, value |-> x]

Quote == "\""
Quoted(x) == Quote \o x \o Quote

\* sep.join(texts)
JoinWith(texts, sep) ==
    LET J[i \in 0..Len(texts)] ==
            IF i = 0 THEN ""
            ELSE IF i = 1 THEN texts[1]
            ELSE J[i - 1] \o sep \o texts[i]
    IN J[Len(texts)]

\* json.dumps of a scalar; default=str turns an unknown object into its text
ScalarText(x) ==
    IF x.t = "null" THEN "null"
    ELSE IF x.t = "bool" THEN (IF x.v THEN "true" ELSE "false")
    ELSE IF x.t = "int" THEN ToString(x.v)
    ELSE IF x.t = "float" THEN FloatStr(x.v)
    ELSE Quoted(x.v)

ItemText(it) == Quoted(it.name) \o ": " \o ScalarText(it.value)

\* json.dumps(value, default=str)
dumps(x) ==
    IF x.t = "list"
    THEN "[" \o JoinWith([i \in 1..Len(x.v) |-> ScalarText(x.v[i])], ", ") \o "]"
    ELSE IF x.t = "dict"
    THEN "{" \o JoinWith([i \in 1..Len(x.v) |-> ItemText(x.v[i])], ", ") \o "}"
    ELSE ScalarText(x)

\* the field names the model uses in the order sorted() puts them
NameOrder ==
    <<"brand", "category", "id", "in_stock_only", "last_query", "max_price",
      "min_price", "min_rating", "name", "page", "page_size", "products_shown",
      "query", "total">>

\* the items of a dict ordered by name
SortedItems(items) ==
    LET present == SelectSeq(NameOrder,
                       LAMBDA n : \E i \in 1..Len(items) : items[i].name = n)
    IN [k \in 1..Len(present) |->
            items[CHOOSE i \in 1..Len(items) : items[i].name = present[k]]]

\* json.dumps(data, sort_keys=True, default=str) of a dict
dumps_sorted(x) == dumps(JDict(SortedItems(x.v)))

\* s.split(sep) for a separator that does not overlap itself
SplitOn(s, sep) ==
    LET cuts == {i \in 1..(Len(s) - Len(sep) + 1) : SubSeq(s, i, i + Len(sep) - 1) = sep}
        n == Cardinality(cuts)
        from(k) == IF k = 1 THEN 1 ELSE Kth(cuts, k - 1) + Len(sep)
        to(k) == IF k = n + 1 THEN Len(s) ELSE Kth(cuts, k) - 1
    IN [k \in 1..(n + 1) |-> SubSeq(s, from(k), to(k))]

Digits == "0123456789"
IsDigit(c) == \E d \in 1..10 : Char(Digits, d) = c
DigitValue(c) == (CHOOSE d \in 1..10 : Char(Digits, d) = c) - 1

IsNumber(s) == Len(s) >= 1 /\ \A i \in 1..Len(s) : IsDigit(Char(s, i))

NumberValue(s) ==
    LET V[i \in 0..Len(s)] == IF i = 0 THEN 0 ELSE 10 * V[i - 1] + DigitValue(Char(s, i))
    IN V[Len(s)]

IsQuoted(s) ==
    /\ Len(s) >= 2
    /\ Char(s, 1) = Quote
    /\ Char(s, Len(s)) = Quote
    /\ ~Contains(Quote, SubSeq(s, 2, Len(s) - 1))

Unquoted(s) == SubSeq(s, 2, Len(s) - 1)

IsScalarText(s) ==
    s \in {"null", "true", "false"} \/ IsNumber(s) \/ IsQuoted(s)

ParseScalar(s) ==
    IF s = "null" THEN JNull
    ELSE IF s = "true" THEN JBool(TRUE)
    ELSE IF s = "false" THEN JBool(FALSE)
    ELSE IF IsNumber(s) THEN JInt(NumberValue(s))
    ELSE JStr(Unquoted(s))

IsItemText(s) ==
    /\ Len(SplitOn(s, ": ")) = 2
    /\ IsQuoted(SplitOn(s, ": ")[1])
    /\ IsScalarText(SplitOn(s, ": ")[2])

ParseItem(s) == Item(Unquoted(SplitOn(s, ": ")[1]), ParseScalar(SplitOn(s, ": ")[2]))

Enclosed(s, open, close) ==
    Len(s) >= 2 /\ Char(s, 1) = open /\ Char(s, Len(s)) = close

Inner(s) == IF Len(s) = 2 THEN <<>> ELSE SplitOn(SubSeq(s, 2, Len(s) - 1), ", ")

\* json.loads accepts the text
Parses(s) ==
    IF Enclosed(s, "[", "]") THEN \A i \in 1..Len(Inner(s)) : IsScalarText(Inner(s)[i])
    ELSE IF Enclosed(s, "{", "}") THEN \A i \in 1..Len(Inner(s)) : IsItemText(Inner(s)[i])
    ELSE IsScalarText(s)

\* json.loads(text) of a text it accepts
loads(s) ==
    IF Enclosed(s, "[", "]")
    THEN JList([i \in 1..Len(Inner(s)) |-> ParseScalar(Inner(s)[i])])
    ELSE IF Enclosed(s, "{", "}")
    THEN JDict([i \in 1..Len(Inner(s)) |-> ParseItem(Inner(s)[i])])
    ELSE ParseScalar(s)

\* == on scalars
ScalarEq(x, y) == x.t = y.t /\ x.v = y.v

\* == on Python values: dicts compare irrespective of the order of their items
JEq(x, y) ==
    /\ x.t = y.t
    /\ IF x.t = "list"
       THEN Len(x.v) = Len(y.v) /\ \A i \in 1..Len(x.v) : ScalarEq(x.v[i], y.v[i])
       ELSE IF x.t = "dict"
       THEN /\ Len(x.v) = Len(y.v)
            /\ \A i \in 1..Len(x.v) : \E j \in 1..Len(y.v) :
                  x.v[i].name = y.v[j].name /\ ScalarEq(x.v[i].value, y.v[j].value)
       ELSE x.v = y.v

\* the values the model sets: None, False, 0, [], {}, "" and ordinary ones
JsonValues ==
    <<JNull, JBool(FALSE), JInt(0), JList(<<>>), JDict(<<>>), JStr(""),
      JBool(TRUE), JInt(42), JStr("test"), JList(<<JInt(1), JInt(2), JInt(3)>>),
      JDict(<<Item("query", JStr("laptop")), Item("page", JInt(1))>>)>>

(***************************************************************************)
(* CacheService: keys, time-to-live policy, and get / set / delete against *)
(* the Redis store.                                                        *)
(***************************************************************************)
cache_ttl == 3600
SearchTtl == 300
ProductTtl == 3600
ChatContextTtl == 1800

\* hashlib.md5(text).hexdigest(), taken as free of collisions: the digest of
\* a text is represented by the text it digests
md5_hexdigest(text) == "md5<" \o text \o ">"

\* variant: the data is serialized in the order of its items
_generate_cache_key_unsorted(prefix, data) ==
    prefix \o ":" \o md5_hexdigest(dumps(data))

_generate_cache_key(prefix, data) ==
    prefix \o ":" \o md5_hexdigest(dumps_sorted(data))

OptFloat(o) == IF o = None THEN JNull ELSE JFloat(o[1])
OptText(o) == IF o = None THEN JNull ELSE JStr(o[1])

\* search_request.model_dump(): the fields in declaration order; a rating is
\* kept in tenths and dumped as a float
model_dump(r) ==
    JDict(<<Item("query", JStr(r.query)),
            Item("category", OptText(r.category)),
            Item("min_price", OptFloat(r.min_price)),
            Item("max_price", OptFloat(r.max_price)),
            Item("brand", OptText(r.brand)),
            Item("in_stock_only", JBool(r.in_stock_only)),
            Item("min_rating", IF r.min_rating = None THEN JNull
                               ELSE JFloat(10 * r.min_rating[1])),
            Item("page", JInt(r.page)),
            Item("page_size", JInt(r.page_size))>>)

search_key(r) == _generate_cache_key("search", model_dump(r))
product_key(product_id) == "product:" \o product_id
chat_context_key(session_id) == "chat_context:" \o session_id

\* what the callers of the model cache besides plain values
SearchResponseDump ==
    JDict(<<Item("query", JStr("laptop")), Item("total", JInt(0))>>)
ProductData == JDict(<<Item("id", JStr("123")), Item("name", JStr("Test Product"))>>)
ChatContext ==
    JDict(<<Item("last_query", JStr("laptop")), Item("products_shown", JInt(5))>>)

CacheValues == JsonValues \o <<SearchResponseDump, ProductData, ChatContext>>
SearchResponseIx == Len(JsonValues) + 1
ProductDataIx == Len(JsonValues) + 2
ChatContextIx == Len(JsonValues) + 3

PlainKeys == {"test_key"}
ProductIds == {"123"}
SessionIds == {"session123"}
CachedRequests == {SearchRequest("laptop", 10), SearchRequest("phone", 10)}
Ttls == {None, Some(0), Some(600)}
Reaches == {"ok", "raises"}
ForeignText == "invalid json {{"

\* the data handed to the key derivation: one or two fields in either order,
\* with values JSON has a form for and one (a Decimal) it has none for
Namespaces == {"search", "product"}
FieldValues == <<JStr("laptop"), JStr("1"), JInt(1), JFloat(100), JObj("1"), JNull>>

OneField == {<<n, i>> : n \in {"query", "page"}, i \in 1..Len(FieldValues)}

PayloadOf(c) ==
    IF Len(c) = 2
    THEN JDict(<<Item(c[1], FieldValues[c[2]])>>)
    ELSE JDict(<<Item(c[1], FieldValues[c[2]]), Item(c[3], FieldValues[c[4]])>>)

TwoFields ==
    {<<n, i, m, j>> : n \in {"query", "page"}, i \in 1..Len(FieldValues),
                      m \in {"query", "page"}, j \in 1..Len(FieldValues)}

PayloadChoices == OneField \cup {c \in TwoFields : c[1] # c[3]}

\* the entries of the store under a key
Lookup(key) == {e \in store : e.key = key}

\* client.get(key)
StoreGet(key) ==
    IF Lookup(key) = {} THEN None ELSE Some((CHOOSE e \in Lookup(key) : TRUE).text)

StoreWith(key, text) == (store \ Lookup(key)) \cup {[key |-> key, text |-> text]}

WrittenWith(key, vi) ==
    {w \in written : w.key # key} \cup {[key |-> key, vi |-> vi]}

Command(cmd, key, ttl, text) == [cmd |-> cmd, key |-> key, ttl |-> ttl, text |-> text]

\* ttl or settings.cache_ttl
EffectiveTtl(ttl) == IF ttl # None /\ ttl[1] # 0 THEN ttl[1] ELSE cache_ttl

\* variant: the text read is returned without being parsed
get_value_unparsed(key, reach) ==
    IF reach = "raises" THEN JNull
    ELSE IF StoreGet(key) = None \/ StoreGet(key)[1] = "" THEN JNull
    ELSE JStr(StoreGet(key)[1])

\* CacheService.get past the availability test: the value read, None when the
\* client raises, nothing is stored, or the text does not parse
get_value(key, reach) ==
    IF reach = "raises" THEN JNull
    ELSE IF StoreGet(key) = None \/ StoreGet(key)[1] = "" THEN JNull
    ELSE IF Parses(StoreGet(key)[1]) THEN loads(StoreGet(key)[1])
    ELSE JNull

(***************************************************************************)
(* The state machine.                                                      *)
(***************************************************************************)
Fresh ==
    /\ message = ""
    /\ search_terms = ""
    /\ search_request = None
    /\ planned = None
    /\ es_log = <<>>
    /\ search_response = None
    /\ products = <<>>
    /\ invoked = <<>>
    /\ outcomes = <<>>
    /\ ai_response = None
    /\ suggestions = <<>>
    /\ raised = FALSE
    /\ response = None
    /\ es_reply = None
    /\ vs_request = None
    /\ query_embedding = None
    /\ embed_calls = <<>>
    /\ analysis_log = <<>>
    /\ gemini_analysis = None
    /\ http = None
    /\ rank_in = None
    /\ rank_out = <<>>
    /\ store = {}
    /\ written = {}
    /\ store_log = <<>>
    /\ cache_call = None
    /\ cache_result = None
    /\ key_in = None
    /\ key_out = None
    /\ get_log = <<>>
    /\ got = None
    /\ rejected = None

\* AIService.__init__: each provider ends up available or not; the vision
\* models are not installed
Init ==
    /\ pc = "idle"
    /\ op = "none"
    /\ vertex_ai_available \in BOOLEAN
    /\ openai_available \in BOOLEAN
    /\ clip_available = FALSE
    /\ gemini_vision_available = FALSE
    /\ redis_available = TRUE
    /\ Fresh

\* POST /api/search with a well-formed descriptor: search_products as a whole
SearchEndpoint ==
    /\ pc = "idle"
    /\ \E d \in Descriptors : \E reply \in EsReplies(EsBody(d)) :
        /\ search_request' = Some(d)
        /\ planned' = Some(_build_search_query(d))
        /\ es_log' = <<EsBody(d)>>
        /\ es_reply' = Some(reply)
        /\ search_response' = Some(search_products(d, reply))
    /\ op' = "search"
    /\ pc' = "done"
    /\ UNCHANGED vision_vars
    /\ UNCHANGED cache_vars
    /\ UNCHANGED rejected
    /\ UNCHANGED <<vertex_ai_available, openai_available, message, search_terms,
                   products, invoked, outcomes, ai_response, suggestions, raised,
                   response>>

\* SearchService.get_product as a whole
GetProduct ==
    /\ pc = "idle"
    /\ \E id \in LookedUpIds : \E reply \in EsGetReplies(id) :
        /\ get_log' = <<id>>
        /\ got' = Some(get_product(id, reply))
    /\ op' = "product"
    /\ pc' = "done"
    /\ UNCHANGED vision_vars
    /\ UNCHANGED rejected
    /\ UNCHANGED <<redis_available, store, written, store_log, cache_call,
                   cache_result, key_in, key_out>>
    /\ UNCHANGED es_reply
    /\ UNCHANGED <<vertex_ai_available, openai_available, message, search_terms,
                   search_request, planned, es_log, search_response, products,
                   invoked, outcomes, ai_response, suggestions, raised, response>>

\* POST /api/chat: AIService.chat is entered with a message
ChatBegin ==
    /\ pc = "idle"
    /\ \E m \in Messages : message' = m
    /\ op' = "chat"
    /\ pc' = "extract"
    /\ UNCHANGED vision_vars
    /\ UNCHANGED cache_vars
    /\ UNCHANGED rejected
    /\ UNCHANGED es_reply
    /\ UNCHANGED <<vertex_ai_available, openai_available, search_terms,
                   search_request, planned, es_log, search_response, products,
                   invoked, outcomes, ai_response, suggestions, raised, response>>

\* chat, line 61
ChatExtract ==
    /\ pc = "extract"
    /\ search_terms' = _extract_search_terms(message)
    /\ pc' = IF search_terms' # "" THEN "search" ELSE "vertex"
    /\ UNCHANGED vision_vars
    /\ UNCHANGED cache_vars
    /\ UNCHANGED rejected
    /\ UNCHANGED es_reply
    /\ UNCHANGED <<op, vertex_ai_available, openai_available, message,
                   search_request, planned, es_log, search_response, products,
                   invoked, outcomes, ai_response, suggestions, raised, response>>

\* chat, lines 65-71
ChatSearch ==
    /\ pc = "search"
    /\ LET r == chat_search_request(search_terms) IN
       \E reply \in EsReplies(EsBody(r)) :
        /\ search_request' = Some(r)
        /\ planned' = Some(_build_search_query(r))
        /\ es_log' = Append(es_log, EsBody(r))
        /\ es_reply' = Some(reply)
        /\ search_response' = Some(search_products(r, reply))
        /\ products' = search_products(r, reply).products
    /\ pc' = "vertex"
    /\ UNCHANGED vision_vars
    /\ UNCHANGED cache_vars
    /\ UNCHANGED rejected
    /\ UNCHANGED <<op, vertex_ai_available, openai_available, message,
                   search_terms, invoked, outcomes, ai_response, suggestions,
                   raised, response>>

\* variant: a failed call marks Vertex AI as unavailable
VertexAttempt_disables ==
    /\ pc = "vertex"
    /\ vertex_ai_available
    /\ \E o \in {"ok", "raise"} :
        /\ invoked' = Append(invoked, "vertex")
        /\ outcomes' = Append(outcomes, o)
        /\ ai_response' = IF o = "ok" THEN Some(VertexText) ELSE ai_response
        /\ pc' = IF o = "ok" THEN "return" ELSE "openai"
        /\ vertex_ai_available' = (o = "ok")
    /\ UNCHANGED vision_vars
    /\ UNCHANGED cache_vars
    /\ UNCHANGED rejected
    /\ UNCHANGED es_reply
    /\ UNCHANGED <<op, openai_available, message,
                   search_terms, search_request, planned, es_log,
                   search_response, products, suggestions, raised, response>>

\* _generate_response, lines 159-163: Vertex AI is tried when available
VertexAttempt ==
    /\ pc = "vertex"
    /\ vertex_ai_available
    /\ \E o \in {"ok", "raise"} :
        /\ invoked' = Append(invoked, "vertex")
        /\ outcomes' = Append(outcomes, o)
        /\ ai_response' = IF o = "ok" THEN Some(VertexText) ELSE ai_response
        /\ pc' = IF o = "ok" THEN "return" ELSE "openai"
    /\ UNCHANGED vision_vars
    /\ UNCHANGED cache_vars
    /\ UNCHANGED rejected
    /\ UNCHANGED es_reply
    /\ UNCHANGED <<op, vertex_ai_available, openai_available, message,
                   search_terms, search_request, planned, es_log,
                   search_response, products, suggestions, raised, response>>

\* _generate_response, line 159: Vertex AI is not available
VertexSkip ==
    /\ pc = "vertex"
    /\ ~vertex_ai_available
    /\ pc' = "openai"
    /\ UNCHANGED vision_vars
    /\ UNCHANGED cache_vars
    /\ UNCHANGED rejected
    /\ UNCHANGED es_reply
    /\ UNCHANGED <<op, vertex_ai_available, openai_available, message,
                   search_terms, search_request, planned, es_log,
                   search_response, products, invoked, outcomes, ai_response,
                   suggestions, raised, response>>

\* _generate_response, lines 166-170: OpenAI is tried when available
OpenAIAttempt ==
    /\ pc = "openai"
    /\ openai_available
    /\ \E o \in {"ok", "raise"} :
        /\ invoked' = Append(invoked, "openai")
        /\ outcomes' = Append(outcomes, o)
        /\ ai_response' = IF o = "ok" THEN Some(OpenAIText) ELSE ai_response
        /\ pc' = IF o = "ok" THEN "return" ELSE "fallback"
    /\ UNCHANGED vision_vars
    /\ UNCHANGED cache_vars
    /\ UNCHANGED rejected
    /\ UNCHANGED es_reply
    /\ UNCHANGED <<op, vertex_ai_available, openai_available, message,
                   search_terms, search_request, planned, es_log,
                   search_response, products, suggestions, raised, response>>

\* variant: OpenAI is passed over whether or not it is available
OpenAISkip_always ==
    /\ pc = "openai"
    /\ pc' = "fallback"
    /\ UNCHANGED vision_vars
    /\ UNCHANGED cache_vars
    /\ UNCHANGED rejected
    /\ UNCHANGED es_reply
    /\ UNCHANGED <<op, vertex_ai_available, openai_available, message,
                   search_terms, search_request, planned, es_log,
                   search_response, products, invoked, outcomes, ai_response,
                   suggestions, raised, response>>

\* _generate_response, line 166: OpenAI is not available
OpenAISkip ==
    /\ pc = "openai"
    /\ ~openai_available
    /\ pc' = "fallback"
    /\ UNCHANGED vision_vars
    /\ UNCHANGED cache_vars
    /\ UNCHANGED rejected
    /\ UNCHANGED es_reply
    /\ UNCHANGED <<op, vertex_ai_available, openai_available, message,
                   search_terms, search_request, planned, es_log,
                   search_response, products, invoked, outcomes, ai_response,
                   suggestions, raised, response>>

\* _generate_response, line 173: the rule-based responder
Fallback ==
    /\ pc = "fallback"
    /\ invoked' = Append(invoked, "fallback")
    /\ outcomes' = Append(outcomes, "ok")
    /\ ai_response' = Some(_generate_fallback_response(message, products))
    /\ pc' = "return"
    /\ UNCHANGED vision_vars
    /\ UNCHANGED cache_vars
    /\ UNCHANGED rejected
    /\ UNCHANGED es_reply
    /\ UNCHANGED <<op, vertex_ai_available, openai_available, message,
                   search_terms, search_request, planned, es_log,
                   search_response, products, suggestions, raised, response>>

\* chat, lines 76-84: suggestions are generated and the ChatResponse is returned
ChatReturn ==
    /\ pc = "return"
    /\ suggestions' = _generate_suggestions(message, products)
    /\ response' = Some(ChatResponse(ai_response[1], products, suggestions', search_terms))
    /\ pc' = "done"
    /\ UNCHANGED vision_vars
    /\ UNCHANGED cache_vars
    /\ UNCHANGED rejected
    /\ UNCHANGED es_reply
    /\ UNCHANGED <<op, vertex_ai_available, openai_available, message,
                   search_terms, search_request, planned, es_log,
                   search_response, products, invoked, outcomes, ai_response,
                   raised>>

\* variant: the except branch returns the candidates retrieved so far
ChatRaise_keeps_products ==
    /\ pc \in {"vertex", "openai", "fallback", "return"}
    /\ raised' = TRUE
    /\ response' = Some([ErrorResponse EXCEPT !.products = products])
    /\ pc' = "done"
    /\ UNCHANGED vision_vars
    /\ UNCHANGED cache_vars
    /\ UNCHANGED rejected
    /\ UNCHANGED es_reply
    /\ UNCHANGED <<op, vertex_ai_available, openai_available, message,
                   search_terms, search_request, planned, es_log,
                   search_response, products, invoked, outcomes, ai_response,
                   suggestions>>

\* chat, lines 86-93: an exception escapes a statement of lines 73-84 (such as
\* OverflowError from int(avg_price) or a validation error of ChatResponse)
\* and the except branch returns the fixed response
ChatRaise ==
    /\ pc \in {"vertex", "openai", "fallback", "return"}
    /\ raised' = TRUE
    /\ response' = Some(ErrorResponse)
    /\ pc' = "done"
    /\ UNCHANGED vision_vars
    /\ UNCHANGED cache_vars
    /\ UNCHANGED rejected
    /\ UNCHANGED es_reply
    /\ UNCHANGED <<op, vertex_ai_available, openai_available, message,
                   search_terms, search_request, planned, es_log,
                   search_response, products, invoked, outcomes, ai_response,
                   suggestions>>

\* the request has been answered; the services wait for the next one
NextRequest ==
    /\ pc = "done"
    /\ pc' = "idle"
    /\ op' = "none"
    /\ message' = ""
    /\ search_terms' = ""
    /\ search_request' = None
    /\ planned' = None
    /\ es_log' = <<>>
    /\ search_response' = None
    /\ products' = <<>>
    /\ invoked' = <<>>
    /\ outcomes' = <<>>
    /\ ai_response' = None
    /\ suggestions' = <<>>
    /\ raised' = FALSE
    /\ response' = None
    /\ es_reply' = None
    /\ vs_request' = None
    /\ query_embedding' = None
    /\ embed_calls' = <<>>
    /\ analysis_log' = <<>>
    /\ gemini_analysis' = None
    /\ http' = None
    /\ rank_in' = None
    /\ rank_out' = <<>>
    /\ store_log' = <<>>
    /\ cache_call' = None
    /\ cache_result' = None
    /\ key_in' = None
    /\ key_out' = None
    /\ get_log' = <<>>
    /\ got' = None
    /\ rejected' = None
    /\ UNCHANGED <<vertex_ai_available, openai_available, clip_available,
                   gemini_vision_available, redis_available, store, written>>

Next ==
    \/ SearchEndpoint
    \/ GetProduct
    \/ ChatBegin
    \/ ChatExtract
    \/ ChatSearch
    \/ VertexAttempt
    \/ VertexSkip
    \/ OpenAIAttempt
    \/ OpenAISkip
    \/ Fallback
    \/ ChatReturn
    \/ ChatRaise
    \/ NextRequest

Spec == Init /\ [][Next]_vars

\* the extraction step alone, applied to every input message
NextExtract ==
    \/ ChatBegin
    \/ ChatExtract

SpecExtract == Init /\ [][NextExtract]_vars

\* VisionService.search_similar_products applied to the input x
Ranked(x) ==
    /\ rank_in' = Some(x)
    /\ rank_out' = search_similar_products(x.query_embedding, x.product_embeddings,
                                           x.top_k, x.threshold, x.rounding)

RankCall ==
    /\ pc = "idle"
    /\ \/ \E q \in QueryVectors, vs \in CandidateLists, k \in TopKs, t \in Thresholds :
            \E r \in RoundingsFor(q, vs) : Ranked(RankInput(q, vs, k, t, r))
       \/ \E r \in RoundingsFor(ScenarioDQuery, ScenarioDCandidates) :
            Ranked(RankInput(ScenarioDQuery, ScenarioDCandidates, DefaultTopK,
                             DefaultThreshold, r))
    /\ op' = "rank"
    /\ pc' = "done"
    /\ UNCHANGED cache_vars
    /\ UNCHANGED rejected
    /\ UNCHANGED <<clip_available, gemini_vision_available, vs_request,
                   query_embedding, embed_calls, analysis_log, gemini_analysis, http>>
    /\ UNCHANGED <<vertex_ai_available, openai_available, message, search_terms,
                   search_request, planned, es_log, search_response, products,
                   invoked, outcomes, ai_response, suggestions, raised, response,
                   es_reply>>

\* the service as constructed without any provider
InitRank ==
    /\ pc = "idle"
    /\ op = "none"
    /\ vertex_ai_available = FALSE
    /\ openai_available = FALSE
    /\ clip_available = FALSE
    /\ gemini_vision_available = FALSE
    /\ redis_available = TRUE
    /\ Fresh

NextRank ==
    \/ RankCall
    \/ NextRequest

SpecRank == InitRank /\ [][NextRank]_vars

text_vars == <<vertex_ai_available, openai_available, message, search_terms,
               search_request, planned, es_log, search_response, products,
               invoked, outcomes, ai_response, suggestions, raised, response,
               es_reply>>

\* visual_search, lines 130-155: the upload is checked and the form is read
VisualBegin ==
    /\ pc = "idle"
    /\ op' = "visual"
    /\ \E upload \in Uploads :
        IF upload = "no_file"
        THEN /\ http' = Some(ErrorReturn(400, NoFileText))
             /\ vs_request' = None
             /\ pc' = "done"
        ELSE IF upload = "empty_filename"
        THEN /\ http' = Some(ErrorReturn(400, EmptyFilenameText))
             /\ vs_request' = None
             /\ pc' = "done"
        ELSE /\ \E req \in VisualRequests : vs_request' = Some(req)
             /\ http' = None
             /\ pc' = "embed"
    /\ UNCHANGED <<clip_available, gemini_vision_available, query_embedding,
                   embed_calls, analysis_log, gemini_analysis, rank_in, rank_out>>
    /\ UNCHANGED text_vars
    /\ UNCHANGED cache_vars
    /\ UNCHANGED rejected

\* variant: the request goes on without an embedding
VisualEmbed_continues ==
    /\ pc = "embed"
    /\ \/ /\ ~clip_available
          /\ query_embedding' = None
          /\ embed_calls' = embed_calls
       \/ /\ clip_available
          /\ \E o \in EmbedOutcomes :
                /\ embed_calls' = Append(embed_calls, o.kind)
                /\ query_embedding' = o.value
    /\ http' = http
    /\ pc' = "analyze"
    /\ UNCHANGED <<op, clip_available, gemini_vision_available, vs_request,
                   analysis_log, gemini_analysis, rank_in, rank_out>>
    /\ UNCHANGED text_vars
    /\ UNCHANGED cache_vars
    /\ UNCHANGED rejected

\* visual_search, lines 157-161, with generate_image_embedding: None when the
\* model is not loaded or the run raises
VisualEmbed ==
    /\ pc = "embed"
    /\ \/ /\ ~clip_available
          /\ query_embedding' = None
          /\ embed_calls' = embed_calls
       \/ /\ clip_available
          /\ \E o \in EmbedOutcomes :
                /\ embed_calls' = Append(embed_calls, o.kind)
                /\ query_embedding' = o.value
    /\ IF query_embedding' = None
       THEN /\ http' = Some(ErrorReturn(500, EmbeddingFailedText))
            /\ pc' = "done"
       ELSE /\ http' = http
            /\ pc' = "analyze"
    /\ UNCHANGED <<op, clip_available, gemini_vision_available, vs_request,
                   analysis_log, gemini_analysis, rank_in, rank_out>>
    /\ UNCHANGED text_vars
    /\ UNCHANGED cache_vars
    /\ UNCHANGED rejected

\* visual_search, lines 163-166, with analyze_image_with_gemini: None when the
\* provider is unavailable, raises or answers what does not parse
VisualAnalyze ==
    /\ pc = "analyze"
    /\ IF vs_request[1].use_gemini_analysis /\ gemini_vision_available
       THEN \E o \in AnalysisOutcomes :
                /\ analysis_log' = Append(analysis_log, o)
                /\ gemini_analysis' = IF o = "ok" THEN Some(Attributes) ELSE None
       ELSE /\ analysis_log' = analysis_log
            /\ gemini_analysis' = None
    /\ pc' = "retrieve"
    /\ UNCHANGED <<op, clip_available, gemini_vision_available, vs_request,
                   query_embedding, embed_calls, http, rank_in, rank_out>>
    /\ UNCHANGED text_vars
    /\ UNCHANGED cache_vars
    /\ UNCHANGED rejected

\* visual_search, lines 168-228: the candidates are asked for with a request
\* that SearchRequest rejects; the ValueError is answered with status 400
VisualRetrieve ==
    /\ pc = "retrieve"
    /\ LET r == SearchRequest("*", AllProductsPageSize)
           req == vs_request[1]
       IN IF ~ValidSearchRequest(r)
          THEN /\ http' = Some(ErrorReturn(400, InvalidRequestText))
               /\ rejected' = Some(r)
               /\ UNCHANGED <<search_request, planned, es_log, es_reply,
                              search_response, rank_in, rank_out>>
          ELSE \E reply \in EsReplies(EsBody(r)) :
                /\ UNCHANGED rejected
                /\ search_request' = Some(r)
                /\ planned' = Some(_build_search_query(r))
                /\ es_log' = Append(es_log, EsBody(r))
                /\ es_reply' = Some(reply)
                /\ search_response' = Some(search_products(r, reply))
                /\ IF search_products(r, reply).products # <<>>
                   THEN \* Product has no attribute image_embedding
                        /\ http' = Some(ErrorReturn(500, InternalErrorText))
                        /\ UNCHANGED <<rank_in, rank_out>>
                   ELSE /\ rank_in' = Some(RankInput(query_embedding[1], <<>>, req.top_k,
                                                    DefaultThreshold, <<>>))
                        /\ rank_out' = search_similar_products(query_embedding[1], <<>>,
                                            req.top_k, DefaultThreshold, <<>>)
                        /\ http' = Some(VisualSearchResponse(
                                Take(similar_products(<<>>, rank_out', req), req.top_k),
                                Len(similar_products(<<>>, rank_out', req)),
                                gemini_analysis))
    /\ pc' = "done"
    /\ UNCHANGED cache_vars
    /\ UNCHANGED <<op, clip_available, gemini_vision_available, vs_request,
                   query_embedding, embed_calls, analysis_log, gemini_analysis>>
    /\ UNCHANGED <<vertex_ai_available, openai_available, message, search_terms,
                   products, invoked, outcomes, ai_response, suggestions, raised,
                   response>>

\* request bodies of POST /api/search that SearchRequest refuses
RefusedDescriptors ==
    {d \in [query : {"laptop"}, category : {None}, min_price : {None},
            max_price : {None}, brand : {None}, in_stock_only : {TRUE},
            min_rating : {None}, page : {0, 1}, page_size : {0, 20, MaxPageSize + 1}] :
        ~ValidSearchRequest(d)}

\* POST /api/search with fields SearchRequest refuses: the ValueError is
\* answered with status 400 before search_products is called
SearchRejected ==
    /\ pc = "idle"
    /\ \E d \in RefusedDescriptors :
        /\ rejected' = Some(d)
        /\ http' = Some(ErrorReturn(400, InvalidRequestText))
    /\ op' = "search"
    /\ pc' = "done"
    /\ UNCHANGED cache_vars
    /\ UNCHANGED <<clip_available, gemini_vision_available, vs_request,
                   query_embedding, embed_calls, analysis_log, gemini_analysis,
                   rank_in, rank_out>>
    /\ UNCHANGED text_vars

\* the three ways a search descriptor comes about: the search endpoint, a chat
\* turn and a visual search
InitDescriptors ==
    /\ pc = "idle"
    /\ op = "none"
    /\ vertex_ai_available = FALSE
    /\ openai_available = FALSE
    /\ clip_available \in BOOLEAN
    /\ gemini_vision_available \in BOOLEAN
    /\ redis_available = TRUE
    /\ Fresh

NextDescriptors ==
    \/ SearchEndpoint
    \/ SearchRejected
    \/ ChatBegin
    \/ ChatExtract
    \/ ChatSearch
    \/ VertexSkip
    \/ OpenAISkip
    \/ Fallback
    \/ ChatReturn
    \/ ChatRaise
    \/ VisualBegin
    \/ VisualEmbed
    \/ VisualAnalyze
    \/ VisualRetrieve
    \/ NextRequest

SpecDescriptors == InitDescriptors /\ [][NextDescriptors]_vars

\* VisionService.__init__: each vision model ends up loaded or not
InitVisual ==
    /\ pc = "idle"
    /\ op = "none"
    /\ vertex_ai_available = FALSE
    /\ openai_available = FALSE
    /\ clip_available \in BOOLEAN
    /\ gemini_vision_available \in BOOLEAN
    /\ redis_available = TRUE
    /\ Fresh

NextVisual ==
    \/ VisualBegin
    \/ VisualEmbed
    \/ VisualAnalyze
    \/ VisualRetrieve
    \/ NextRequest

SpecVisual == InitVisual /\ [][NextVisual]_vars

\* the cache operation is recorded and the request is over
Served(name, key, vi, ttl, reach, result) ==
    /\ pc = "idle"
    /\ pc' = "done"
    /\ op' = "cache"
    /\ cache_call' = Some([name |-> name, key |-> key, vi |-> vi, ttl |-> ttl,
                           reach |-> reach])
    /\ cache_result' = Some(result)
    /\ UNCHANGED <<redis_available, key_in, key_out, get_log, got>>
    /\ UNCHANGED vision_vars
    /\ UNCHANGED rejected
    /\ UNCHANGED text_vars

\* variant: the store is asked although it was found unreachable at start-up
get_unguarded(name, key) ==
    \E reach \in Reaches :
        /\ Served(name, key, 0, None, reach,
                  IF redis_available THEN get_value(key, reach) ELSE JNull)
        /\ store_log' = Append(store_log, Command("get", key, 0, ""))
        /\ UNCHANGED <<store, written>>

\* CacheService.get, lines 44-56
get(name, key) ==
    IF ~redis_available
    THEN /\ Served(name, key, 0, None, "none", JNull)
         /\ UNCHANGED <<store, written, store_log>>
    ELSE \E reach \in Reaches :
            /\ Served(name, key, 0, None, reach, get_value(key, reach))
            /\ store_log' = Append(store_log, Command("get", key, 0, ""))
            /\ UNCHANGED <<store, written>>

\* CacheService.set, lines 58-70; ttl is what the method receives, given what
\* the caller supplied
set(name, key, vi, supplied, ttl) ==
    IF ~redis_available
    THEN /\ Served(name, key, vi, supplied, "none", JBool(FALSE))
         /\ UNCHANGED <<store, written, store_log>>
    ELSE \E reach \in Reaches :
            /\ Served(name, key, vi, supplied, reach, JBool(reach = "ok"))
            /\ store_log' = Append(store_log,
                   Command("setex", key, EffectiveTtl(ttl), dumps(CacheValues[vi])))
            /\ IF reach = "ok"
               THEN /\ store' = StoreWith(key, dumps(CacheValues[vi]))
                    /\ written' = WrittenWith(key, vi)
               ELSE UNCHANGED <<store, written>>

\* CacheService.delete, lines 72-82
delete(name, key) ==
    IF ~redis_available
    THEN /\ Served(name, key, 0, None, "none", JBool(FALSE))
         /\ UNCHANGED <<store, written, store_log>>
    ELSE \E reach \in Reaches :
            /\ Served(name, key, 0, None, reach,
                      JBool(reach = "ok" /\ Lookup(key) # {}))
            /\ store_log' = Append(store_log, Command("delete", key, 0, ""))
            /\ IF reach = "ok"
               THEN /\ store' = store \ Lookup(key)
                    /\ written' = {w \in written : w.key # key}
               ELSE UNCHANGED <<store, written>>

\* the default of a helper's ttl parameter applies when the caller omits it
OrDefault(supplied, default) == IF supplied = None THEN Some(default) ELSE supplied

CacheGet ==
    /\ pc = "idle"
    /\ \E key \in PlainKeys : get("get", key)

CacheSet ==
    /\ pc = "idle"
    /\ \E key \in PlainKeys, vi \in 1..Len(JsonValues), ttl \in Ttls :
        set("set", key, vi, ttl, ttl)

CacheDelete ==
    /\ pc = "idle"
    /\ \E key \in PlainKeys : delete("delete", key)

GetSearchResults ==
    /\ pc = "idle"
    /\ \E r \in CachedRequests : get("get_search_results", search_key(r))

CacheSearchResults ==
    /\ pc = "idle"
    /\ \E r \in CachedRequests, ttl \in Ttls :
        set("cache_search_results", search_key(r), SearchResponseIx, ttl,
            OrDefault(ttl, SearchTtl))

GetCachedProduct ==
    /\ pc = "idle"
    /\ \E id \in ProductIds : get("get_product", product_key(id))

CacheProduct ==
    /\ pc = "idle"
    /\ \E id \in ProductIds, ttl \in Ttls :
        set("cache_product", product_key(id), ProductDataIx, ttl,
            OrDefault(ttl, ProductTtl))

GetChatContext ==
    /\ pc = "idle"
    /\ \E sid \in SessionIds : get("get_chat_context", chat_context_key(sid))

CacheChatContext ==
    /\ pc = "idle"
    /\ \E sid \in SessionIds, ttl \in Ttls :
        set("cache_chat_context", chat_context_key(sid), ChatContextIx, ttl,
            OrDefault(ttl, ChatContextTtl))

\* the store drops an entry whose time to live has run out
Expire ==
    /\ pc = "idle"
    /\ \E e \in store :
        /\ store' = store \ {e}
        /\ written' = {w \in written : w.key # e.key}
    /\ UNCHANGED <<pc, op, redis_available, store_log, cache_call, cache_result,
                   key_in, key_out, get_log, got>>
    /\ UNCHANGED vision_vars
    /\ UNCHANGED rejected
    /\ UNCHANGED text_vars

\* another client of the store overwrites an entry with a text of its own
ForeignWrite ==
    /\ pc = "idle"
    /\ \E key \in PlainKeys :
        /\ store' = StoreWith(key, ForeignText)
        /\ written' = {w \in written : w.key # key}
    /\ UNCHANGED <<pc, op, redis_available, store_log, cache_call, cache_result,
                   key_in, key_out, get_log, got>>
    /\ UNCHANGED vision_vars
    /\ UNCHANGED rejected
    /\ UNCHANGED text_vars

\* _generate_cache_key applied to two inputs
DeriveKeys ==
    /\ pc = "idle"
    /\ \E n1 \in Namespaces, n2 \in Namespaces :
       \E c1 \in PayloadChoices, c2 \in PayloadChoices :
        /\ key_in' = Some(<<[namespace |-> n1, data |-> PayloadOf(c1)],
                            [namespace |-> n2, data |-> PayloadOf(c2)]>>)
        /\ key_out' = Some(<<_generate_cache_key(n1, PayloadOf(c1)),
                             _generate_cache_key(n2, PayloadOf(c2))>>)
    /\ pc' = "done"
    /\ op' = "key"
    /\ UNCHANGED <<redis_available, store, written, store_log, cache_call,
                   cache_result, get_log, got>>
    /\ UNCHANGED vision_vars
    /\ UNCHANGED rejected
    /\ UNCHANGED text_vars

NextKey ==
    \/ DeriveKeys
    \/ NextRequest

\* CacheService.__init__: the store answered the ping or it did not
InitCache ==
    /\ pc = "idle"
    /\ op = "none"
    /\ vertex_ai_available = FALSE
    /\ openai_available = FALSE
    /\ clip_available = FALSE
    /\ gemini_vision_available = FALSE
    /\ redis_available \in BOOLEAN
    /\ Fresh

NextCache ==
    \/ CacheGet
    \/ CacheSet
    \/ CacheDelete
    \/ GetSearchResults
    \/ CacheSearchResults
    \/ GetCachedProduct
    \/ CacheProduct
    \/ GetChatContext
    \/ CacheChatContext
    \/ Expire
    \/ ForeignWrite
    \/ NextRequest

SpecCache == InitCache /\ [][NextCache]_vars

TypeOK ==
    /\ pc \in {"idle", "extract", "search", "vertex", "openai", "fallback", "return", "done"}
    /\ op \in {"none", "search", "product", "chat"}
    /\ vertex_ai_available \in BOOLEAN
    /\ openai_available \in BOOLEAN
    /\ Len(invoked) = Len(outcomes)
    /\ Len(es_log) <= 1

(***************************************************************************)
(* Vocabulary of the properties.                                           *)
(***************************************************************************)
Planned == planned # None /\ search_request # None

Filters(q) == IF "filter" \in DOMAIN q THEN q.filter ELSE <<>>

\* positions of the filters of a given kind on a given field
FiltersOn(q, kind, field) ==
    {i \in 1..Len(Filters(q)) : Filters(q)[i].kind = kind /\ Filters(q)[i].field = field}

OneIff(S, cond) == Cardinality(S) = (IF cond THEN 1 ELSE 0)

TheFilter(q, kind, field) == Filters(q)[CHOOSE i \in FiltersOn(q, kind, field) : TRUE]

Blank(s) == \A i \in 1..Len(s) : Char(s, i) \in {" ", "\t", "\n", "\r"}

\* the filters that follow from the numeric fields and the stock flag
NumericFiltersExact(d, q) ==
    /\ OneIff(FiltersOn(q, "term", "in_stock"), d.in_stock_only)
    /\ OneIff(FiltersOn(q, "range", "price"), d.min_price # None \/ d.max_price # None)
    /\ FiltersOn(q, "range", "price") # {} =>
        LET b == TheFilter(q, "range", "price").value IN
        /\ ("gte" \in DOMAIN b) <=> (d.min_price # None)
        /\ ("lte" \in DOMAIN b) <=> (d.max_price # None)
        /\ d.min_price # None => b.gte = d.min_price[1]
        /\ d.max_price # None => b.lte = d.max_price[1]
    /\ OneIff(FiltersOn(q, "range", "rating"), d.min_rating # None)
    /\ d.min_rating # None => TheFilter(q, "range", "rating").value = [gte |-> d.min_rating[1]]

CategoryFilterExact(d, q) ==
    /\ OneIff(FiltersOn(q, "term", "category"), d.category # None)
    /\ d.category # None => TheFilter(q, "term", "category").value = d.category[1]

\* every filter is one of the five, and an empty filter section is left out
NoOtherFilter(q) ==
    /\ Len(Filters(q)) =
         Cardinality(FiltersOn(q, "term", "category"))
         + Cardinality(FiltersOn(q, "term", "brand.keyword"))
         + Cardinality(FiltersOn(q, "term", "in_stock"))
         + Cardinality(FiltersOn(q, "range", "price"))
         + Cardinality(FiltersOn(q, "range", "rating"))
    /\ "filter" \in DOMAIN q => q.filter # <<>>

(***************************************************************************)
(* C1: the hard filters of the planned query are exactly: category iff     *)
(* category is set, brand iff brand is not None, in-stock iff              *)
(* in_stock_only, one price range iff a price bound is not None (with the  *)
(* bounds that are not None, 0 included), rating floor iff min_rating is   *)
(* not None; and no filter section at all when none applies.               *)
(***************************************************************************)
C1_FiltersExactlyFieldPresence ==
    Planned =>
        LET d == search_request[1]
            q == planned[1]
        IN /\ CategoryFilterExact(d, q)
           /\ OneIff(FiltersOn(q, "term", "brand.keyword"), d.brand # None)
           /\ d.brand # None => TheFilter(q, "term", "brand.keyword").value = d.brand[1]
           /\ NumericFiltersExact(d, q)
           /\ NoOtherFilter(q)

(***************************************************************************)
(* C2: the relevance section holds exactly one clause, fixed by the query  *)
(* text alone: match-all when the text is blank, otherwise the multi-field *)
(* match on the text with weights name x3, description x2, brand x2,       *)
(* features x1, tags x1; no filter appears in it.                          *)
(***************************************************************************)
C2_RelevanceClauseFromTextOnly ==
    Planned =>
        LET d == search_request[1]
            q == planned[1]
        IN /\ Len(q.must) = 1
           /\ q.must[1].kind \in {"match_all", "multi_match"}
           /\ Blank(d.query) <=> q.must[1].kind = "match_all"
           /\ Blank(d.query) => q.must[1] = [kind |-> "match_all"]
           /\ ~Blank(d.query) =>
                q.must[1] = [kind |-> "multi_match", query |-> d.query,
                             fields |-> <<"name^3", "description^2", "brand^2",
                                          "features", "tags">>]

C2_Witness ==
    /\ Planned
    /\ op = "search"
    /\ search_request[1].query = "  "
    /\ search_request[1].category # None
    /\ search_request[1].min_price = Some(0)
    /\ planned[1].must = <<[kind |-> "match_all"]>>
    /\ Len(planned[1].filter) >= 2

(***************************************************************************)
(* Vocabulary of the extraction properties.                                *)
(***************************************************************************)
\* the chat turn has passed the extraction step
Extracted == op = "chat" /\ pc \notin {"idle", "extract"}

\* keyword i of the list is the first one of the list contained in s
FirstHit(words, i, s) ==
    /\ Contains(words[i], s)
    /\ \A j \in 1..(i - 1) : ~Contains(words[j], s)

category_words == [i \in 1..Len(category_keywords) |-> category_keywords[i][1]]

HasCategory(s) == AnyIn(category_words, s)
HasBrand(s) == AnyIn(brand_keywords, s)
HasBudget(s) == AnyIn(<<"cheap", "budget", "affordable", "under">>, s)
HasPremium(s) == AnyIn(<<"premium", "expensive", "high-end", "best">>, s)

KeywordFree(m) ==
    /\ ~HasCategory(lower(m))
    /\ ~HasBrand(lower(m))
    /\ ~HasBudget(lower(m))
    /\ ~HasPremium(lower(m))

\* the message without '?' and '!' and without surrounding whitespace
Cleaned(m) == strip(remove(remove(m, "?"), "!"))

C4_BrandMessagesYieldBrand ==
    Extracted =>
        /\ message = "Show me Apple products" => search_terms = "apple"
        /\ message = "I want APPLE products" => search_terms = "apple"
        /\ message = "I want an iPhone" => search_terms = "iphone"
        /\ message = "Looking for Sony headphones" => search_terms = "sony"
        /\ message = "Need Nike shoes" => search_terms = "nike"

(***************************************************************************)
(* C5: a message with a budget-intent word yields 'budget' and a message   *)
(* with a premium-intent word yields 'premium', as in 'Products under      *)
(* $100', 'Show me premium laptops', 'I want expensive headphones' and     *)
(* 'Looking for high-end electronics'.                                     *)
(***************************************************************************)
C5_PriceIntentMessages ==
    Extracted =>
        /\ message = "Show me cheap products" => search_terms = "budget"
        /\ message = "Looking for affordable options" => search_terms = "budget"
        /\ message = "Products under $100" => search_terms = "budget"
        /\ message = "Show me premium laptops" => search_terms = "premium"
        /\ message = "I want expensive headphones" => search_terms = "premium"
        /\ message = "Looking for high-end electronics" => search_terms = "premium"

(***************************************************************************)
(* C6: for a keyword-free message whose cleaned form has at most 50        *)
(* characters, extraction returns the message with every '?' and '!'       *)
(* removed and trimmed, case preserved, and extracting from that result    *)
(* returns it unchanged.                                                   *)
(***************************************************************************)
C6_Original_CleanAndIdempotent ==
    (Extracted /\ KeywordFree(message) /\ Len(Cleaned(message)) <= 50) =>
        /\ search_terms = Cleaned(message)
        /\ _extract_search_terms(search_terms) = search_terms

\* C6 as amended: the second extraction returns the result unchanged
\* provided the result itself contains no recognised keyword
C6_CleanAndIdempotentIfStillKeywordFree ==
    (Extracted /\ KeywordFree(message) /\ Len(Cleaned(message)) <= 50) =>
        /\ search_terms = Cleaned(message)
        /\ KeywordFree(search_terms) => _extract_search_terms(search_terms) = search_terms

C6_Witness ==
    /\ Extracted
    /\ message = "Cool stuff!"
    /\ search_terms = "Cool stuff"
    /\ _extract_search_terms(search_terms) = "Cool stuff"

(***************************************************************************)
(* Vocabulary of the chat-turn properties.                                 *)
(***************************************************************************)
Rank(stage) == IF stage = "vertex" THEN 1 ELSE IF stage = "openai" THEN 2 ELSE 3

Invoked(stage) == \E i \in 1..Len(invoked) : invoked[i] = stage

\* the stage was invoked and its attempt raised
Failed(stage) == \E i \in 1..Len(invoked) : invoked[i] = stage /\ outcomes[i] = "raise"

Available(stage) ==
    IF stage = "vertex" THEN vertex_ai_available
    ELSE IF stage = "openai" THEN openai_available
    ELSE TRUE

\* what a stage returns when it succeeds in the current turn
OutputOf(stage) ==
    IF stage = "vertex" THEN VertexText
    ELSE IF stage = "openai" THEN OpenAIText
    ELSE IF products # <<>>
        THEN IF Len(products) = 1 THEN SingleText(products[1])
             ELSE MultiText(Len(products), products[1])
    ELSE IF AnyIn(<<"hello", "hi", "hey">>, lower(message)) THEN GreetingText
    ELSE IF AnyIn(<<"help", "what can you do">>, lower(message)) THEN HelpText
    ELSE NotFoundText

\* the turn has left _generate_response normally
Generated == op = "chat" /\ (pc = "return" \/ (pc = "done" /\ ~raised))

(***************************************************************************)
(* C7: within one chat turn the stages run in the order provider A,        *)
(* provider B, rule-based responder, each at most once; B is invoked only  *)
(* after A was unavailable or raised; the responder runs only when every   *)
(* available provider raised; an unavailable provider is never invoked;    *)
(* the response text is the output of the first stage that succeeds.       *)
(***************************************************************************)
C7_CascadeOrder ==
    /\ \A i, j \in 1..Len(invoked) : i < j => Rank(invoked[i]) < Rank(invoked[j])
    /\ \A i \in 1..Len(invoked) : Available(invoked[i])
    /\ \A i \in 1..Len(invoked) : i < Len(invoked) => outcomes[i] = "raise"
    /\ Invoked("openai") => (~vertex_ai_available \/ Failed("vertex"))
    /\ Invoked("fallback") =>
        /\ vertex_ai_available => Failed("vertex")
        /\ openai_available => Failed("openai")
    /\ ai_response # None =>
        /\ invoked # <<>>
        /\ outcomes[Len(invoked)] = "ok"
        /\ ai_response[1] = OutputOf(invoked[Len(invoked)])
    /\ Generated => ai_response # None
    /\ (op = "chat" /\ pc = "done" /\ ~raised) => response[1].response = ai_response[1]

C7_Witness ==
    /\ op = "chat"
    /\ pc = "done"
    /\ ~raised
    /\ invoked = <<"vertex", "openai">>
    /\ outcomes = <<"raise", "ok">>
    /\ response[1].response = OpenAIText

(***************************************************************************)
(* C8: chat always returns a response; when an internal error was caught   *)
(* it is exactly the fixed apology text with no products, the three fixed  *)
(* suggestions and no context, whatever was computed earlier in the turn.  *)
(***************************************************************************)
C8_ChatNeverRaises ==
    (op = "chat" /\ pc = "done") =>
        /\ response # None
        /\ raised =>
            /\ response[1].response =
                "I apologize, but I'm having trouble processing your request right now. Please try again later."
            /\ response[1].products = <<>>
            /\ response[1].suggestions =
                <<"Try a different search", "Browse categories", "Contact support">>
            /\ response[1].context = <<>>

C8_Witness ==
    /\ op = "chat"
    /\ pc = "done"
    /\ raised
    /\ products # <<>>
    /\ ai_response # None
    /\ response[1].products = <<>>

(***************************************************************************)
(* C9: in every chat turn the index is searched exactly once, with the     *)
(* extracted term as query text and page size 5, when the term is          *)
(* non-empty, and not at all when it is empty; the turn returns at most 5  *)
(* products, in retrieval order.                                           *)
(***************************************************************************)
C9_OneSearchOfFive ==
    op = "chat" =>
        /\ pc \in {"extract", "search"} => es_log = <<>>
        /\ pc \in {"vertex", "openai", "fallback", "return", "done"} =>
            IF search_terms # ""
            THEN /\ Len(es_log) = 1
                 /\ es_log[1].size = 5
                 /\ es_log[1].from = 0
                 /\ es_log[1].query.must[1].kind = "multi_match"
                 /\ es_log[1].query.must[1].query = search_terms
            ELSE es_log = <<>> /\ products = <<>>
        /\ Len(products) <= 5
        /\ response # None =>
            /\ Len(response[1].products) <= 5
            /\ ~raised => response[1].products = products
            /\ (~raised /\ search_terms # "") =>
                    response[1].products = search_response[1].products

C9_Witness ==
    /\ op = "chat"
    /\ pc = "done"
    /\ ~raised
    /\ search_response # None
    /\ search_response[1].total > 5
    /\ Len(response[1].products) = 5

(***************************************************************************)
(* C10: every chat response, on every path, carries at most 3 follow-up    *)
(* suggestions.                                                            *)
(***************************************************************************)
C10_AtMostThreeSuggestions ==
    /\ Len(suggestions) <= 3
    /\ response # None => Len(response[1].suggestions) <= 3

C10_Witness ==
    /\ op = "chat"
    /\ pc = "done"
    /\ ~raised
    /\ \E i \in 1..Len(products) : products[i].category = "electronics"
    /\ Len(products) >= 2
    /\ Len(response[1].suggestions) = 3

(***************************************************************************)
(* Vocabulary of the suggestion and fallback-text properties.              *)
(***************************************************************************)
\* the turn returned through the normal path
Returned == op = "chat" /\ pc = "done" /\ ~raised

AnyElectronics(prods) == \E i \in 1..Len(prods) : prods[i].category = "electronics"

\* the whole dollars a with a <= mean price < a + 1, prices being in cents
FloorMeanDollars(prods) ==
    LET n == Len(prods)
        dearest == CHOOSE i \in 1..n : \A j \in 1..n : prods[j].price <= prods[i].price
    IN CHOOSE a \in 0..(prods[dearest].price \div 100) :
        /\ 100 * n * a <= SumPrices(prods)
        /\ SumPrices(prods) < 100 * n * (a + 1)

C12_PriceSuggestionsIncluded ==
    (Returned /\ products # <<>>) =>
        /\ \E i \in 1..Len(response[1].suggestions) :
                Contains("under $", response[1].suggestions[i])
        /\ \E i \in 1..Len(response[1].suggestions) :
                Contains("above $", response[1].suggestions[i])

\* the rule-based responder produced the text of this turn
FallbackRan == op = "chat" /\ Invoked("fallback") /\ ai_response # None

\* the words of the message: lower-cased, '?' and '!' dropped, split on whitespace
WordsOf(m) == split(lower(remove(remove(m, "?"), "!")))

HasGreetingWord(m) ==
    \E i \in 1..Len(WordsOf(m)) : WordsOf(m)[i] \in {"hello", "hi", "hey"}

HasHelpPhrase(m) == Contains("help", lower(m)) \/ Contains("what can you do", lower(m))

(***************************************************************************)
(* C13: with zero candidates the rule-based responder returns the greeting *)
(* text iff the message contains a greeting word (hello, hi, hey),         *)
(* otherwise the capability text iff it contains a help phrase, otherwise  *)
(* the 'couldn't find' text; 'Show me something' gets 'couldn't find'.     *)
(***************************************************************************)
C13_ZeroCandidateTexts ==
    (FallbackRan /\ products = <<>>) =>
        /\ message = "Show me something" => ai_response[1] = NotFoundText
        /\ ai_response[1] =
            IF HasGreetingWord(message) THEN GreetingText
            ELSE IF HasHelpPhrase(message) THEN HelpText
            ELSE NotFoundText

(***************************************************************************)
(* C14: with at least one candidate the rule-based text names exactly one  *)
(* product, the first candidate in retrieval order whatever the ratings,   *)
(* with its name, brand and price; the single-option wording (rating, 'in  *)
(* stock') is used iff there is exactly one candidate, otherwise the       *)
(* 'N great options' wording with N the number of candidates.              *)
(***************************************************************************)
C14_FirstCandidateNamed ==
    (FallbackRan /\ products # <<>>) =>
        LET t == ai_response[1]
            p == products[1]
            n == Len(products)
        IN /\ Contains("the " \o p.name \o " by " \o OptStr(p.brand)
                       \o " for $" \o FloatStr(p.price) \o ".", t)
           /\ \A i \in 2..n : ~Contains(products[i].name, t)
           /\ (n = 1) <=> Contains("I found a great option for you", t)
           /\ (n = 1) <=> Contains("It has a " \o RatingStr(p.rating) \o "/5 rating", t)
           /\ (n = 1) <=> Contains("in stock", t)
           /\ (n > 1) <=> Contains("I found " \o ToString(n) \o " great options!", t)

C14_Witness ==
    /\ FallbackRan
    /\ Len(products) >= 2
    /\ products[1].rating # None
    /\ products[2].rating # None
    /\ products[1].rating[1] < products[2].rating[1]
    /\ Contains(products[1].name, ai_response[1])

\* search_products has answered a request of this turn
Searched == search_request # None /\ es_reply # None /\ search_response # None

(***************************************************************************)
(* C15: search_products always answers with a response that echoes the     *)
(* request's query, page and page_size; when the index call fails or the   *)
(* index reports no matching record, the response has products = [],       *)
(* total = 0 and total_pages = 0.                                          *)
(***************************************************************************)
C15_EmptyResponseOnFailureOrNoMatch ==
    /\ (es_log # <<>>) => Searched
    /\ Searched =>
        LET r == search_request[1]
            a == es_reply[1]
            s == search_response[1]
        IN /\ s.query = r.query
           /\ s.page = r.page
           /\ s.page_size = r.page_size
           /\ (~a.ok \/ a.total = 0) =>
                (s.products = <<>> /\ s.total = 0 /\ s.total_pages = 0)

C15_Witness ==
    /\ op = "search"
    /\ Searched
    /\ ~es_reply[1].ok
    /\ search_request[1].page = 2
    /\ strip(search_request[1].query) # ""
    /\ search_response[1].products = <<>>
    /\ search_response[1].page = 2

(***************************************************************************)
(* C16: for a successful search with page >= 1 and 1 <= page_size <= 100   *)
(* the offset sent to the index is (page - 1) * page_size, the limit sent  *)
(* is page_size, total_pages is ceil(total / page_size), and total_pages   *)
(* is 0 iff total is 0.                                                    *)
(***************************************************************************)
C16_PaginationArithmetic ==
    (Searched /\ es_reply[1].ok) =>
        LET r == search_request[1]
            sent == es_log[Len(es_log)]
            total == es_reply[1].total
            s == search_response[1]
        IN (r.page >= 1 /\ r.page_size >= 1 /\ r.page_size <= MaxPageSize /\ total >= 0) =>
            /\ sent.from = (r.page - 1) * r.page_size
            /\ sent.size = r.page_size
            /\ s.total = total
            /\ s.total_pages * r.page_size >= total
            /\ (s.total_pages - 1) * r.page_size < total
            /\ (s.total_pages = 0) <=> (total = 0)

C16_Witness ==
    /\ op = "search"
    /\ Searched
    /\ es_reply[1].ok
    /\ search_request[1].page = 2
    /\ search_request[1].page_size = 2
    /\ es_reply[1].total = 5
    /\ es_log[1].from = 2
    /\ search_response[1].total_pages = 3

\* search_similar_products has answered
RankDone == op = "rank" /\ pc = "done" /\ rank_in # None

Candidates == rank_in[1].product_embeddings

\* candidate i's own similarity to the query
Own(i) ==
    calculate_similarity(rank_in[1].query_embedding, Candidates[i].embedding,
                         rank_in[1].rounding[i])

Qualifies(i) == GreaterEq(Own(i), rank_in[1].threshold)

Returns(i) == \E k \in 1..Len(rank_out) : rank_out[k].id = Candidates[i].id

(***************************************************************************)
(* C17: the ranking pairs each returned candidate's id with that           *)
(* candidate's own similarity to the query; every returned score is >= the *)
(* threshold, a score equal to the threshold being kept; scores are in     *)
(* non-increasing order; the length is min(top_k, number of candidates     *)
(* scoring >= threshold); no omitted candidate scoring >= threshold has a  *)
(* strictly higher score than a returned one.                              *)
(***************************************************************************)
C17_RankingContract ==
    RankDone =>
        /\ \A k \in 1..Len(rank_out) : \E i \in 1..Len(Candidates) :
            /\ Candidates[i].id = rank_out[k].id
            /\ rank_out[k].score = Own(i)
            /\ Qualifies(i)
        /\ \A k, l \in 1..Len(rank_out) : k # l => rank_out[k].id # rank_out[l].id
        /\ \A k \in 1..(Len(rank_out) - 1) : ~Less(rank_out[k].score, rank_out[k + 1].score)
        /\ Len(rank_out) =
            Min(rank_in[1].top_k, Cardinality({i \in 1..Len(Candidates) : Qualifies(i)}))
        /\ \A i \in 1..Len(Candidates) : (Qualifies(i) /\ ~Returns(i)) =>
            \A k \in 1..Len(rank_out) : ~Less(rank_out[k].score, Own(i))

C17_Witness ==
    /\ RankDone
    /\ Len(Candidates) = 3
    /\ Len(rank_out) = 2
    /\ rank_out[2].id = Candidates[1].id
    /\ ~Less(rank_out[2].score, rank_in[1].threshold)
    /\ ~Less(rank_in[1].threshold, rank_out[2].score)
    /\ Less(rank_out[2].score, rank_out[1].score)

\* candidate p's embedding is the query embedding, and it is not the zero vector
IdenticalTo(p) ==
    /\ Candidates[p].embedding = rank_in[1].query_embedding
    /\ Norm2(rank_in[1].query_embedding) # 0

IsOne(x) == x.d > 0 /\ x.d * x.d = x.n /\ x.e = 0

\* 1.0 up to the rounding of the evaluation
IsOneRounded(x) == x.d > 0 /\ x.d * x.d = x.n /\ x.e \in Roundings

\* P is first when a first entry is asked for and nobody else scores as high
FirstIfUnrivalled(p) ==
    (/\ rank_in[1].top_k >= 1
     /\ Qualifies(p)
     /\ \A i \in 1..Len(Candidates) : i # p => ~GreaterEq(Own(i), Own(p)))
    => (rank_out # <<>> /\ rank_out[1].id = Candidates[p].id)

\* scenario D: threshold 0.3, top_k 10, every other candidate below 0.3
ScenarioD(p) ==
    (/\ rank_in[1].threshold = DefaultThreshold
     /\ rank_in[1].top_k = DefaultTopK
     /\ \A i \in 1..Len(Candidates) : i # p => Less(Own(i), DefaultThreshold))
    => rank_out = <<[id |-> Candidates[p].id, score |-> Own(p)]>>

(***************************************************************************)
(* C18 as stated: if the query embedding is identical to candidate P's,    *)
(* P's score is the maximum value 1.0 and P is first provided no other     *)
(* candidate scores at least as high; in scenario D the result is exactly  *)
(* the one entry P.                                                        *)
(***************************************************************************)
C18_Original_IdenticalScoresOne ==
    RankDone => \A p \in 1..Len(Candidates) : IdenticalTo(p) =>
        /\ IsOne(Own(p))
        /\ FirstIfUnrivalled(p)
        /\ ScenarioD(p)

(***************************************************************************)
(* C18 amended: if the query embedding is identical to candidate P's,      *)
(* P's score is 1.0 up to floating-point rounding, no candidate's exact    *)
(* similarity exceeds it, and P is first provided no other candidate       *)
(* scores at least as high; in scenario D the result is exactly P.         *)
(***************************************************************************)
C18_IdenticalScoresOneWithinRounding ==
    RankDone => \A p \in 1..Len(Candidates) : IdenticalTo(p) =>
        /\ IsOneRounded(Own(p))
        /\ \A i \in 1..Len(Candidates) : ~IsNan(Own(i)) => ~ExactLess(Own(p), Own(i))
        /\ FirstIfUnrivalled(p)
        /\ ScenarioD(p)

C18_Witness ==
    /\ RankDone
    /\ Len(Candidates) = 6
    /\ rank_in[1].threshold = DefaultThreshold
    /\ rank_in[1].top_k = DefaultTopK
    /\ IdenticalTo(3)
    /\ Own(3).e = -1
    /\ \A i \in {1, 2, 4, 5, 6} : Less(Own(i), DefaultThreshold)
    /\ rank_out = <<[id |-> "p3", score |-> Own(3)]>>

\* the image was accepted and generate_image_embedding has returned
Embedded == op = "visual" /\ vs_request # None /\ pc # "embed"

EmbeddingFailed ==
    \/ ~clip_available
    \/ embed_calls # <<>> /\ embed_calls[Len(embed_calls)] = "raises"

(***************************************************************************)
(* C19: when the embedding model is not loaded or the embedding run fails, *)
(* generate_image_embedding returns None instead of raising and the image  *)
(* path stops with an explicit error: no candidate retrieval, no ranking,  *)
(* no vision-analysis call, and no product list in what is returned.       *)
(***************************************************************************)
C19_EmbeddingUnavailableStops ==
    (Embedded /\ EmbeddingFailed) =>
        /\ query_embedding = None
        /\ pc = "done"
        /\ http # None
        /\ http[1].kind = "error"
        /\ http[1].status = 500
        /\ http[1].error = EmbeddingFailedText
        /\ es_log = <<>>
        /\ search_response = None
        /\ rank_in = None
        /\ analysis_log = <<>>
        /\ gemini_analysis = None

C19_Witness ==
    /\ Embedded
    /\ clip_available
    /\ gemini_vision_available
    /\ vs_request[1].use_gemini_analysis
    /\ embed_calls = <<"raises">>
    /\ query_embedding = None
    /\ http # None
    /\ http[1].error = EmbeddingFailedText

\* visual_search has returned for an image that was embedded
VisualAnswered == op = "visual" /\ pc = "done" /\ query_embedding # None

\* the analysis was not requested, not available, or its call failed
NoAnalysis ==
    \/ ~vs_request[1].use_gemini_analysis
    \/ ~gemini_vision_available
    \/ analysis_log # <<>> /\ analysis_log[Len(analysis_log)] # "ok"

(***************************************************************************)
(* C20: in the image path the returned product list is the one retrieval,  *)
(* ranking and the request's filters determine, whatever the outcome of    *)
(* the vision analysis; an analysis that fails, is unavailable or is not   *)
(* requested gives a response with a null analysis, never an error.        *)
(***************************************************************************)
C20_AnalysisNeverAffectsResult ==
    VisualAnswered =>
        /\ NoAnalysis => (http[1].kind = "ok" /\ http[1].gemini_analysis = None)
        /\ http[1].kind = "ok" =>
            http[1].products =
                Take(similar_products(search_response[1].products, rank_out, vs_request[1]),
                     vs_request[1].top_k)

\* both services constructed with everything they use available
InitFrame ==
    /\ pc = "idle"
    /\ op = "none"
    /\ vertex_ai_available = TRUE
    /\ openai_available = TRUE
    /\ clip_available = FALSE
    /\ gemini_vision_available = FALSE
    /\ redis_available = TRUE
    /\ Fresh

\* chat turns and plain cache calls in any order
NextFrame ==
    \/ ChatBegin
    \/ ChatExtract
    \/ ChatSearch
    \/ VertexAttempt
    \/ OpenAIAttempt
    \/ Fallback
    \/ ChatReturn
    \/ ChatRaise
    \/ CacheGet
    \/ CacheSet
    \/ CacheDelete
    \/ NextRequest

SpecFrame == InitFrame /\ [][NextFrame]_vars

SpecKey == InitCache /\ [][NextKey]_vars

(***************************************************************************)
(* C21 (SpecCache).  A store that cannot be reached degrades the cache: a   *)
(* get answers a miss, a set and a delete answer false, and when the store  *)
(* was found unreachable at start-up no command is sent to it at all.       *)
(***************************************************************************)
CacheServed == op = "cache" /\ pc = "done" /\ cache_call # None

IsGetCall == cache_call[1].name \in
    {"get", "get_search_results", "get_product", "get_chat_context"}

IsSetCall == cache_call[1].name \in
    {"set", "cache_search_results", "cache_product", "cache_chat_context"}

IsDeleteCall == cache_call[1].name = "delete"

Miss == JNull

C21_UnreachableStoreDegrades ==
    CacheServed =>
        /\ ~redis_available => store_log = <<>>
        /\ (~redis_available \/ cache_call[1].reach = "raises") =>
              /\ ~raised
              /\ IsGetCall => JEq(cache_result[1], Miss)
              /\ IsSetCall => JEq(cache_result[1], JBool(FALSE))
              /\ IsDeleteCall => JEq(cache_result[1], JBool(FALSE))

\* a get of a stored key misses because the store raised at call time
C21_Witness ==
    /\ CacheServed
    /\ redis_available
    /\ cache_call[1].reach = "raises"
    /\ IsGetCall
    /\ Lookup(cache_call[1].key) # {}
    /\ JEq(cache_result[1], Miss)

(***************************************************************************)
(* C22 (SpecKey).  The key is '<namespace>:<hash>' and depends on the       *)
(* namespace and the payload only; payloads that are structurally equal     *)
(* derive the same key whatever the order of their fields.  As claimed, any *)
(* two payloads that differ in a field name or value, or two different      *)
(* namespaces, derive different keys.  What holds: payloads of values JSON  *)
(* represents that differ, or different namespaces, derive different keys,  *)
(* and a value JSON cannot represent is keyed as its str() text.            *)
(***************************************************************************)
KeysDerived == op = "key" /\ pc = "done" /\ key_in # None

HasForm(key, namespace) ==
    /\ Len(key) > Len(namespace) + 1
    /\ SubSeq(key, 1, Len(namespace) + 1) = namespace \o ":"

\* both payloads have the same field names carrying identical values
StructurallyEqual(x, y) == JEq(x, y)

JsonNative(x) == \A i \in 1..Len(x.v) : x.v[i].value.t # "obj"

\* the payload with every value JSON cannot represent replaced by its text
Stringified(x) ==
    JDict([i \in 1..Len(x.v) |->
              IF x.v[i].value.t = "obj"
              THEN Item(x.v[i].name, JStr(x.v[i].value.v))
              ELSE x.v[i]])

SameKeyWhenEqual ==
    /\ HasForm(key_out[1][1], key_in[1][1].namespace)
    /\ HasForm(key_out[1][2], key_in[1][2].namespace)
    /\ (/\ key_in[1][1].namespace = key_in[1][2].namespace
        /\ StructurallyEqual(key_in[1][1].data, key_in[1][2].data))
          => key_out[1][1] = key_out[1][2]

SearchAnswered == op = "search" /\ pc = "done" /\ es_reply # None /\ es_reply[1].ok

ProductAnswered == op = "product" /\ pc = "done" /\ got # None /\ got[1] # None

C23_IndexResultsAreCached ==
    /\ SearchAnswered =>
          /\ redis_available => Lookup(search_key(search_request[1])) # {}
    /\ ProductAnswered =>
          /\ redis_available => Lookup(product_key(get_log[1])) # {}
    /\ (op = "search" /\ pc = "done" /\ Lookup(search_key(search_request[1])) # {})
          => es_log = <<>>

(***************************************************************************)
(* C24 (SpecCache).  As claimed: a write reaches the store with exactly the *)
(* time to live the caller supplied, and with the default of the operation  *)
(* (300 search results, 3600 product, 1800 chat context, 3600 plain set)    *)
(* only when the caller supplied none.                                      *)
(***************************************************************************)
DefaultTtlOf(name) ==
    IF name = "cache_search_results" THEN 300
    ELSE IF name = "cache_product" THEN 3600
    ELSE IF name = "cache_chat_context" THEN 1800
    ELSE 3600

WriteSent ==
    /\ CacheServed
    /\ IsSetCall
    /\ store_log # <<>>
    /\ store_log[1].cmd = "setex"

C24_WriteCarriesSuppliedTtl ==
    WriteSent =>
        store_log[1].ttl = IF cache_call[1].ttl # None
                           THEN cache_call[1].ttl[1]
                           ELSE DefaultTtlOf(cache_call[1].name)

(***************************************************************************)
(* C25 (SpecCache).  With the store reachable, a get of a key returns a     *)
(* value equal to the one last set under it as long as that entry has not   *)
(* expired, been deleted or been overwritten, whatever JSON value it is     *)
(* (null, false, 0, [] and {} included); a get of a key that holds no entry *)
(* (never set, deleted, expired) returns a miss.                            *)
(***************************************************************************)
GetAnswered ==
    /\ CacheServed
    /\ IsGetCall
    /\ redis_available
    /\ cache_call[1].reach = "ok"

LastSet(key) == {w \in written : w.key = key}

C25_GetReturnsWhatWasSet ==
    GetAnswered =>
        /\ \A w \in LastSet(cache_call[1].key) :
              JEq(cache_result[1], CacheValues[w.vi])
        /\ Lookup(cache_call[1].key) = {} => JEq(cache_result[1], Miss)

\* the 0 that was set is the 0 that is read
C25_Witness ==
    /\ GetAnswered
    /\ \E w \in LastSet(cache_call[1].key) :
          /\ CacheValues[w.vi].t = "int"
          /\ CacheValues[w.vi].v = 0
    /\ cache_result[1].t = "int"
    /\ cache_result[1].v = 0

(***************************************************************************)
(* C26 (SpecDescriptors).  Every search descriptor that reaches the planner *)
(* or the index, from the search endpoint, a chat turn or a visual search,  *)
(* has page >= 1 and 1 <= page_size <= 100; a descriptor outside these      *)
(* limits is refused when it is constructed, before any index call.         *)
(***************************************************************************)
WithinLimits(r) == r.page >= 1 /\ r.page_size >= 1 /\ r.page_size <= 100

C26_DescriptorsWithinLimits ==
    /\ search_request # None => WithinLimits(search_request[1])
    /\ \A i \in 1..Len(es_log) :
          /\ es_log[i].size >= 1
          /\ es_log[i].size <= 100
          /\ es_log[i].from >= 0
          /\ es_log[i].from % es_log[i].size = 0
    /\ rejected # None =>
          /\ ~WithinLimits(rejected[1])
          /\ search_request = None
          /\ planned = None
          /\ es_log = <<>>

\* a descriptor outside the limits was refused and the index was not called
C26_Witness ==
    /\ pc = "done"
    /\ rejected # None
    /\ rejected[1].page_size > 100
    /\ es_log = <<>>
    /\ http # None
    /\ http[1].status = 400

(***************************************************************************)
(* C27 (SpecExtract).  As claimed: a message whose cleaned form is longer   *)
(* than 50 characters and that holds no category and no brand keyword       *)
(* yields at most 5 tokens, the first tokens of the message that are longer *)
(* than 3 characters and are no stop words, joined by single spaces; for    *)
(* the message of the test they include looking, quality and product.       *)
(***************************************************************************)
Survivors(m) ==
    SelectSeq(split(Cleaned(m)), LAMBDA w : Len(w) > 3 /\ lower(w) \notin stop_words)

FirstSurvivors(m) == SubSeq(Survivors(m), 1, Min(5, Len(Survivors(m))))

LongWithoutCategoryOrBrand(m) ==
    /\ Len(Cleaned(m)) > 50
    /\ ~HasCategory(lower(m))
    /\ ~HasBrand(lower(m))

C27_LongMessageKeyWords ==
    (Extracted /\ LongWithoutCategoryOrBrand(message)) =>
        /\ search_terms = join(FirstSurvivors(message))
        /\ Len(split(search_terms)) <= 5
        /\ message = LongMessage =>
              /\ Contains("looking", search_terms)
              /\ Contains("quality", search_terms)
              /\ Contains("product", search_terms)

(***************************************************************************)
(* C28 (SpecFrame).  No request, whether its providers or the store answer  *)
(* or raise, changes the availability flags of the two text-generation      *)
(* providers or of the cache: they keep the values construction gave them,  *)
(* so what failed in one request is tried again in the next.                *)
(***************************************************************************)
C28_AvailabilityFlagsKept ==
    [][/\ vertex_ai_available' = vertex_ai_available
       /\ openai_available' = openai_available
       /\ redis_available' = redis_available]_vars

\* both providers raised in this turn and both are still marked available
C28_Witness ==
    /\ op = "chat"
    /\ pc = "done"
    /\ Failed("vertex")
    /\ Failed("openai")
    /\ vertex_ai_available
    /\ openai_available
    /\ redis_available

(***************************************************************************)
(* C29 (SpecVisual).  As claimed: a visual search whose image was embedded  *)
(* answers with products in descending order of similarity, the order of    *)
(* the ranking, and they are the top_k most similar candidates that pass    *)
(* the category and price filters of the request.                           *)
(***************************************************************************)
PassesFilters(p, req) ==
    /\ Truthy(req.category) => p.category = req.category[1]
    /\ req.min_price # None => p.price >= req.min_price[1]
    /\ req.max_price # None => p.price <= req.max_price[1]

\* the ranked ids whose product passes the filters, in the order of the ranking
RankedPassing ==
    LET all == search_response[1].products
        passing == SelectSeq(rank_out,
                       LAMBDA r : \E i \in 1..Len(all) :
                           all[i].id = r.id /\ PassesFilters(all[i], vs_request[1]))
    IN [k \in 1..Len(passing) |-> passing[k].id]

C29_ProductsInRankOrder ==
    VisualAnswered =>
        /\ http[1].kind = "ok"
        /\ [i \in 1..Len(http[1].products) |-> http[1].products[i].id]
              = Take(RankedPassing, vs_request[1].top_k)

(***************************************************************************)
(* C30 (Spec).  The search of a chat turn carries the in-stock filter and   *)
(* no other filter and asks for page 1; every product the turn recommends,  *)
(* the one the single-option fallback text calls in stock included, was     *)
(* returned by that in-stock-filtered query.                                *)
(***************************************************************************)
InStockFilterOnly(q) ==
    /\ Len(Filters(q)) = 1
    /\ Filters(q)[1].kind = "term"
    /\ Filters(q)[1].field = "in_stock"
    /\ Filters(q)[1].value = TRUE

\* every product of the list is the source of a hit of the index's reply
FromTheReply(prods) ==
    /\ prods # <<>> => (es_reply # None /\ es_log # <<>>)
    /\ \A i \in 1..Len(prods) :
          \E j \in 1..Len(es_reply[1].hits) : es_reply[1].hits[j].source = prods[i]

C30_ChatSearchInStockOnly ==
    op = "chat" =>
        /\ Len(es_log) <= 1
        /\ \A i \in 1..Len(es_log) :
              /\ InStockFilterOnly(es_log[i].query)
              /\ es_log[i].from = 0
        /\ search_request # None =>
              /\ search_request[1].page = 1
              /\ search_request[1].in_stock_only
              /\ search_request[1].category = None
              /\ search_request[1].brand = None
              /\ search_request[1].min_price = None
              /\ search_request[1].max_price = None
              /\ search_request[1].min_rating = None
        /\ FromTheReply(products)
        /\ response # None => FromTheReply(response[1].products)

\* the fallback text presents the single product the filtered query returned
C30_Witness ==
    /\ Returned
    /\ Invoked("fallback")
    /\ Len(response[1].products) = 1
    /\ Len(es_log) = 1
    /\ InStockFilterOnly(es_log[1].query)

====
